---------------------------- MODULE Spec2Model ----------------------------
(***************************************************************************)
(* Student Finance Manager: the expense list and budget map owned by the   *)
(* Index page, the BudgetManager form, and the derived-metrics components  *)
(* (FinancialHealthScore, EnhancedGamification, GameificationPanel,        *)
(* ExpensePrediction) that are re-evaluated after every change.            *)
(*                                                                         *)
(* Numbers.  JavaScript doubles are modelled as decimal fixed point:       *)
(* money is held in cents, scores and percentages in hundredths of a       *)
(* point, and every multiplication or division rounds its result to the    *)
(* nearest unit (RoundDiv).  NaN is modelled explicitly (Num / NaN).       *)
(*                                                                         *)
(* Dates.  An expense date "YYYY-MM-DD" is the record [year, month, day]   *)
(* with month as Date.getMonth() returns it (0 = January).  The dates the  *)
(* model enters are mid-month days, for which the local-time and UTC       *)
(* readings of the date agree in every time zone.                          *)
(***************************************************************************)
EXTENDS Integers, Sequences, FiniteSets, TLC

VARIABLES
    now,              \* the reference date, new Date()
    expenses,         \* Index: useState<Expense[]>, newest first
    budget,           \* Index: useState<Budget>, category -> limit (cents)
    budgetInputs,     \* BudgetManager: useState<Budget>(budget)
    inputsSaved,      \* budgetInputs and budget are one and the same object
    level,            \* EnhancedGamification: useState(1)
    totalPoints,      \* EnhancedGamification: useState(0)
    unlockedRewards,  \* EnhancedGamification: useState<string[]>([])
    userStats,        \* GameificationPanel: useState<UserStats>
    savedExpenses,    \* localStorage["student-finance-expenses"]
    form,             \* ExpenseForm: description, amount, category, date
    formToast,        \* the last toast ExpenseForm raised
    catalog,          \* CustomCategoryManager: categories, as Index holds it
    categoryForm,     \* CustomCategoryManager: formData, editingCategory
    categoryToast,    \* the last toast CustomCategoryManager raised
    savedBudget,      \* localStorage["student-finance-budget"]
    savedCategories,  \* localStorage["student-finance-categories"]
    storageKeys,      \* what each localStorage key holds: nothing, JSON, or
                      \* a text that JSON.parse rejects
    indexCategories,  \* Index: useState<CustomCategory[]>([])
    mount,            \* React: the commit in progress, the effects still to
                      \* run in it, the state updates queued for the next
                      \* render, the identities of the category arrays
    messages,         \* AICoach: useState<ChatMessage[]>
    input,            \* AICoach: useState("")
    isLoading,        \* AICoach: useState(false)
    timers,           \* AICoach: the setTimeout callbacks not yet run
    exported          \* ExportManager: the last export made

vars == <<now, expenses, budget, budgetInputs, inputsSaved, level,
          totalPoints, unlockedRewards, userStats, savedExpenses,
          form, formToast, catalog, categoryForm, categoryToast,
          savedBudget, savedCategories, storageKeys, indexCategories, mount,
          messages, input, isLoading, timers, exported>>

\* the state of the ExpenseForm and of the CustomCategoryManager
formVars == <<form, formToast>>

catalogVars == <<catalog, categoryForm, categoryToast>>

\* the state of the AICoach chat
chatVars == <<messages, input, isLoading, timers>>

\* the category entry of the storage and what the page holds besides the
\* forms: left alone by every handler of the expenses and the budget
pageVars == <<savedCategories, storageKeys, indexCategories, mount, chatVars,
              exported>>

(***************************************************************************)
(* Bounds of the model                                                     *)
(***************************************************************************)
MaxExpenses == 3
\* the longest expense list built through the ExpenseForm
MaxSubmitted == 2
\* the longest category catalog
MaxCategories == 8
\* the most messages the user sends to the AICoach
MaxSent == 2

(***************************************************************************)
(* Arithmetic helpers                                                      *)
(***************************************************************************)
Max(a, b) == IF a >= b THEN a ELSE b

Min(a, b) == IF a <= b THEN a ELSE b

\* a / b rounded to the nearest unit, halves upwards (b > 0).
RoundDiv(a, b) == (2 * a + b) \div (2 * b)

\* x * (num / den) in fixed point, e.g. Times(x, 115, 100) is x * 1.15.
Times(x, num, den) == RoundDiv(x * num, den)

\* x > y * (num / den) and x < y * (num / den), e.g. Above(x, y, 110, 100) is
\* x > y * 1.1; the comparison is made on the exact values
Above(x, y, num, den) == x * den > y * num

Below(x, y, num, den) == x * den < y * num

\* Math.floor(Math.sqrt(n)) for n >= 0, by bisection on [lo, hi].
RECURSIVE SqrtBetween(_, _, _)
SqrtBetween(n, lo, hi) ==
    IF lo >= hi THEN lo
    ELSE LET mid == (lo + hi + 1) \div 2
         IN  IF mid * mid <= n THEN SqrtBetween(n, mid, hi)
                               ELSE SqrtBetween(n, lo, mid - 1)

ISqrt(n) == SqrtBetween(n, 0, 46340)

\* A JavaScript number that may be NaN.
Num(v) == [nan |-> FALSE, v |-> v]

NaN == [nan |-> TRUE, v |-> 0]

RECURSIVE SumSeq(_)
SumSeq(s) == IF s = <<>> THEN 0 ELSE Head(s) + SumSeq(Tail(s))

RECURSIVE SumFun(_, _)
SumFun(f, keys) ==
    IF keys = {} THEN 0
    ELSE LET k == CHOOSE x \in keys : TRUE
         IN  f[k] + SumFun(f, keys \ {k})

\* array.map(e => e.amount) and friends
Amounts(list) == [i \in 1..Len(list) |-> list[i].amount]

\* [...new Set(list.map(e => e.category))]: first occurrences, in order
RECURSIVE UniqueCategories(_, _)
UniqueCategories(list, seen) ==
    IF list = <<>> THEN <<>>
    ELSE IF Head(list).category \in seen
         THEN UniqueCategories(Tail(list), seen)
         ELSE <<Head(list).category>> \o
              UniqueCategories(Tail(list), seen \cup {Head(list).category})

CategorySet(list) == {list[i].category : i \in 1..Len(list)}

\* Object.values(budget).reduce((sum, amount) => sum + amount, 0)
TotalBudget(b) == SumFun(b, DOMAIN b)

\* budget[category] || 0
BudgetOf(b, c) == IF c \in DOMAIN b THEN b[c] ELSE 0

\* { ...b, [c]: v }
\* a map that takes v at every key, in place of WithKey
WithEveryKey(b, c, v) == [k \in (DOMAIN b) \cup {c} |-> v]

WithKey(b, c, v) == [k \in (DOMAIN b) \cup {c} |-> IF k = c THEN v ELSE b[k]]

EmptyBudget == [k \in {} |-> 0]

(***************************************************************************)
(* Calendar                                                                *)
(***************************************************************************)
\* new Date(year, month + delta, 1): the Date constructor carries a month
\* outside 0..11 into the year.
MonthDate(year, month, delta) ==
    LET m == month + delta
    IN  [year |-> year + (m \div 12), month |-> m % 12]

\* expDate.getMonth() === m && expDate.getFullYear() === y
InMonth(e, y, m) == e.date.month = m /\ e.date.year = y

\* the expenses of the current calendar month
MonthlyExpenses(list, d) ==
    SelectSeq(list, LAMBDA e : InMonth(e, d.year, d.month))

(***************************************************************************)
(* FinancialHealthScore                                                    *)
(* Scores are in hundredths of a point: 10000 is the score 100.            *)
(***************************************************************************)
\* budgetScore: max(0, 100 - ((totalSpent / totalBudget) * 100 - 100)), or 50
BudgetScore(totalSpent, totalBudget) ==
    IF totalBudget > 0
    THEN Max(0, 10000 - (RoundDiv(totalSpent * 10000, totalBudget) - 10000))
    ELSE 5000

\* Object.values(dailySpending): the total of each distinct day of the month
DailySpending(monthly) ==
    LET days    == {monthly[i].date : i \in 1..Len(monthly)}
        total(d) == SumSeq(Amounts(SelectSeq(monthly, LAMBDA e : e.date = d)))
    IN  [d \in days |-> total(d)]

\* avgDailySpending: the mean over the days with spending, 0 when none
AvgDailySpending(daily) ==
    IF DOMAIN daily # {}
    THEN RoundDiv(SumFun(daily, DOMAIN daily), Cardinality(DOMAIN daily))
    ELSE 0

\* variance: the population variance over the days with spending, 0 when none
Variance(daily) ==
    LET avg == AvgDailySpending(daily)
        sq  == [d \in DOMAIN daily |-> (daily[d] - avg) * (daily[d] - avg)]
    IN  IF DOMAIN daily # {}
        THEN RoundDiv(SumFun(sq, DOMAIN daily), Cardinality(DOMAIN daily))
        ELSE 0

\* consistencyScore: Math.max(0, 100 - (Math.sqrt(variance) / avg) * 50).
\* 0 / 0 is NaN and Math.max(0, NaN) is NaN; x / 0 for x > 0 is Infinity.
ConsistencyScore(daily) ==
    LET avg == AvgDailySpending(daily)
        sd  == ISqrt(Variance(daily))
    IN  IF avg = 0
        THEN (IF sd = 0 THEN NaN ELSE Num(0))
        ELSE IF avg > 0
             THEN Num(Max(0, 10000 - RoundDiv(sd * 5000, avg)))
             ELSE Num(Max(0, 10000 + RoundDiv(sd * 5000, -avg)))

\* diversificationScore: Math.min(100, categoryCount * 16.67)
DiversificationScore(monthly) ==
    Min(10000, Cardinality(CategorySet(monthly)) * 1667)

\* the score against the month's spend itself, 100 when nothing was spent,
\* in place of EmergencyScore
EmergencyScoreOfSpend(totalSpent, totalBudget) ==
    IF 2 * totalBudget >= totalSpent THEN 10000
    ELSE RoundDiv(2 * totalBudget * 10000, totalSpent)

\* emergencyScore, with avgMonthlySpending = totalSpent || 100
EmergencyScore(totalSpent, totalBudget) ==
    LET avgMonthlySpending == IF totalSpent = 0 THEN 10000 ELSE totalSpent
        half == Times(avgMonthlySpending, 5, 10)
    IN  IF totalBudget >= half
        THEN 10000
        ELSE IF half > 0 THEN RoundDiv(totalBudget * 10000, half)
                         ELSE -RoundDiv(totalBudget * 10000, -half)

\* healthMetrics: the four scores, in the order of the weights
HealthMetrics(list, b, d) ==
    LET monthly     == MonthlyExpenses(list, d)
        totalSpent  == SumSeq(Amounts(monthly))
        totalBudget == TotalBudget(b)
    IN  << Num(BudgetScore(totalSpent, totalBudget)),
           ConsistencyScore(DailySpending(monthly)),
           Num(DiversificationScore(monthly)),
           Num(EmergencyScore(totalSpent, totalBudget)) >>

\* overallScore: Math.round(sum of score * weight), weights .4 .25 .2 .15;
\* a NaN score makes the sum, and the rounded sum, NaN.  The result is in
\* whole points.
OverallScore(metrics) ==
    IF \E i \in 1..4 : metrics[i].nan
    THEN NaN
    ELSE Num(RoundDiv(40 * metrics[1].v + 25 * metrics[2].v
                      + 20 * metrics[3].v + 15 * metrics[4].v, 10000))

(***************************************************************************)
(* EnhancedGamification                                                    *)
(* progress and maxProgress are in hundredths (100 is the progress 1).     *)
(***************************************************************************)
streakCount == 0

\* ((totalBudget - totalSpent) / totalBudget), in ten-thousandths
SavedRatio(totalSpent, totalBudget) ==
    RoundDiv((totalBudget - totalSpent) * 10000, totalBudget)

\* The 'budget-master' entry of baseAchievements.
BudgetMaster(totalSpent, totalBudget) ==
    [ id          |-> "budget-master",
      progress    |-> IF totalBudget > 0
                      THEN Min(10000, SavedRatio(totalSpent, totalBudget))
                      ELSE 0,
      maxProgress |-> 10000,
      unlocked    |-> totalBudget > 0 /\ totalSpent <= totalBudget,
      points      |-> 200 ]

\* achievements: the catalog of baseAchievements, in its order
Achievements(list, b, d) ==
    LET monthly      == MonthlyExpenses(list, d)
        totalSpent   == SumSeq(Amounts(monthly))
        totalBudget  == TotalBudget(b)
        categories   == UniqueCategories(list, {})
        expenseCount == Len(list)
    IN  << [ id          |-> "first-expense",
             progress    |-> Min(expenseCount, 1) * 100,
             maxProgress |-> 100,
             unlocked    |-> expenseCount >= 1,
             points      |-> 50 ],
           [ id          |-> "expense-tracker",
             progress    |-> Min(expenseCount, 10) * 100,
             maxProgress |-> 1000,
             unlocked    |-> expenseCount >= 10,
             points      |-> 100 ],
           BudgetMaster(totalSpent, totalBudget),
           [ id          |-> "category-explorer",
             progress    |-> Min(Len(categories), 5) * 100,
             maxProgress |-> 500,
             unlocked    |-> Len(categories) >= 5,
             points      |-> 150 ],
           [ id          |-> "savings-champion",
             progress    |-> IF totalBudget > 0
                             THEN Min(10000, SavedRatio(totalSpent, totalBudget))
                             ELSE 0,
             maxProgress |-> 2000,
             unlocked    |-> totalBudget > 0
                             /\ SavedRatio(totalSpent, totalBudget) >= 2000,
             points      |-> 300 ],
           [ id          |-> "voice-user",
             progress    |-> 0,
             maxProgress |-> 500,
             unlocked    |-> FALSE,
             points      |-> 100 ],
           [ id          |-> "consistent-tracker",
             progress    |-> streakCount * 100,
             maxProgress |-> 700,
             unlocked    |-> streakCount >= 7,
             points      |-> 250 ] >>

\* the points of every achievement, unlocked or not, in place of EarnedPoints
EarnedPointsUnfiltered(achievements) ==
    SumSeq([i \in 1..Len(achievements) |-> achievements[i].points])

\* achievements.filter(a => a.unlocked).reduce((sum, a) => sum + a.points, 0)
EarnedPoints(achievements) ==
    SumSeq([i \in 1..Len(achievements) |->
              IF achievements[i].unlocked THEN achievements[i].points ELSE 0])

\* the level at 1000 points a level, in place of LevelOf
LevelOfPer1000(earnedPoints) == (earnedPoints \div 1000) + 1

\* Math.floor(earnedPoints / 200) + 1
LevelOf(earnedPoints) == (earnedPoints \div 200) + 1

\* rewards: the store's catalog; unlocked is totalPoints >= cost
Rewards ==
    { [id |-> "budget-boost",     cost |-> 500],
      [id |-> "category-unlock",  cost |-> 200],
      [id |-> "premium-insights", cost |-> 1000],
      [id |-> "export-premium",   cost |-> 300] }

RewardUnlocked(reward, points) == points >= reward.cost

Includes(list, x) == \E i \in 1..Len(list) : list[i] = x

(***************************************************************************)
(* GameificationPanel.calculateStats                                       *)
(***************************************************************************)
\* the month's spending of one category
SpentIn(monthly, category) ==
    SumSeq(Amounts(SelectSeq(monthly, LAMBDA e : e.category = category)))

\* budgetAmount === 0 || spent <= budgetAmount
WithinBudget(monthly, b, category) ==
    BudgetOf(b, category) = 0 \/ SpentIn(monthly, category) <= BudgetOf(b, category)

\* budgetAmount - spent for a category under its budget, else nothing
SavedIn(monthly, b, category) ==
    IF BudgetOf(b, category) > 0 /\ SpentIn(monthly, category) < BudgetOf(b, category)
    THEN BudgetOf(b, category) - SpentIn(monthly, category)
    ELSE 0

\* level: Math.floor(totalPoints / 1000) + 1
PanelLevelOf(points) == (points \div 1000) + 1

\* expenses.filter(expense => expense.date.startsWith(currentMonth)), with
\* currentMonth the "YYYY-MM" prefix of new Date().toISOString()
PanelMonthlyExpenses(list, d) ==
    SelectSeq(list, LAMBDA e : e.date.year = d.year /\ e.date.month = d.month)

CalculateStats(list, b, d) ==
    LET monthly    == PanelMonthlyExpenses(list, d)
        saved      == [c \in DOMAIN b |-> SavedIn(monthly, b, c)]
        \* Math.floor(saved * 10) points per category, saved in dollars
        earned     == [c \in DOMAIN b |-> saved[c] \div 10]
        totalSaved == SumFun(saved, DOMAIN b)
        points     == SumFun(earned, DOMAIN b) + Len(monthly) * 5
        lvl        == PanelLevelOf(points)
        keys       == Cardinality(DOMAIN b)
        within     == {c \in DOMAIN b : WithinBudget(monthly, b, c)}
    IN  [ totalPoints   |-> points,
          level         |-> lvl,
          currentStreak |-> 0,
          totalSaved    |-> totalSaved,
          achievements  |->
            << [ id |-> "first_expense",
                 unlocked    |-> Len(list) >= 1,
                 progress    |-> Min(Len(list), 1) * 100,
                 maxProgress |-> 100 ],
               [ id |-> "budget_setter",
                 unlocked    |-> keys >= 6,
                 progress    |-> keys * 100,
                 maxProgress |-> 600 ],
               [ id |-> "expense_tracker",
                 unlocked    |-> Len(list) >= 10,
                 progress    |-> Min(Len(list), 10) * 100,
                 maxProgress |-> 1000 ],
               [ id |-> "money_saver",
                 unlocked    |-> totalSaved >= 10000,
                 progress    |-> Min(totalSaved, 10000),
                 maxProgress |-> 10000 ],
               [ id |-> "budget_champion",
                 unlocked    |-> within = DOMAIN b,
                 progress    |-> Cardinality(within) * 100,
                 maxProgress |-> Max(keys, 1) * 100 ],
               [ id |-> "level_up",
                 unlocked    |-> lvl >= 5,
                 progress    |-> Min(lvl, 5) * 100,
                 maxProgress |-> 500 ] >> ]

(***************************************************************************)
(* ExpensePrediction                                                       *)
(***************************************************************************)
\* historicalData[i].data[category] || 0 for i = 0, 1, 2: the category's
\* total in the current month and the two months before it
MonthlySpending(list, d, category) ==
    [i \in 1..3 |->
        LET monthDate == MonthDate(d.year, d.month, -(i - 1))
        IN  SumSeq(Amounts(SelectSeq(list, LAMBDA e :
                InMonth(e, monthDate.year, monthDate.month)
                /\ e.category = category)))]

\* avgSpending: the sum over monthlySpending.length
AvgSpending(monthlySpending) ==
    RoundDiv(SumSeq(monthlySpending), Len(monthlySpending))

\* the most recent month against the one before it, in place of Trend
TrendAgainstPrevious(monthlySpending) ==
    IF Len(monthlySpending) >= 2
    THEN IF Above(monthlySpending[1], monthlySpending[2], 110, 100) THEN "increasing"
         ELSE IF Below(monthlySpending[1], monthlySpending[2], 90, 100) THEN "decreasing"
         ELSE "stable"
    ELSE "stable"

\* trend: the most recent month against the oldest, +-10 %
Trend(monthlySpending) ==
    IF Len(monthlySpending) >= 2
    THEN LET recent == monthlySpending[1]
             older  == monthlySpending[Len(monthlySpending)]
         IN  IF Above(recent, older, 110, 100) THEN "increasing"
             ELSE IF Below(recent, older, 90, 100) THEN "decreasing"
             ELSE "stable"
    ELSE "stable"

\* the average itself whatever the trend, in place of TrendAmount
TrendAmountUnscaled(avgSpending, trend) == avgSpending

\* predictedAmount before the seasonal adjustment
TrendAmount(avgSpending, trend) ==
    IF trend = "increasing" THEN Times(avgSpending, 115, 100)
    ELSE IF trend = "decreasing" THEN Times(avgSpending, 85, 100)
    ELSE avgSpending

\* confidence before the seasonal adjustment
TrendConfidence(monthlySpending, trend) ==
    IF trend = "increasing"
    THEN (IF Len(monthlySpending) >= 3 THEN 85 ELSE 70)
    ELSE IF trend = "decreasing"
         THEN (IF Len(monthlySpending) >= 3 THEN 80 ELSE 65)
         ELSE 70

\* new Date(currentYear, currentMonth + 1, 1).getMonth()
NextMonth(d) == MonthDate(d.year, d.month, 1).month

\* the seasonal adjustment of predictedAmount
SeasonalAmount(category, nextMonth, amount) ==
    LET a == IF category = "education" /\ (nextMonth = 8 \/ nextMonth = 0)
             THEN Times(amount, 13, 10) ELSE amount
    IN  IF category = "entertainment" /\ (nextMonth = 11 \/ nextMonth = 0)
        THEN Times(a, 12, 10) ELSE a

\* the seasonal adjustment of confidence
SeasonalConfidence(category, nextMonth, confidence) ==
    IF category = "education" /\ (nextMonth = 8 \/ nextMonth = 0)
    THEN Min(confidence + 10, 95) ELSE confidence

\* predictedAmount as it stands when the seasonal adjustment begins
PreSeasonalAmount(list, d, category) ==
    LET monthlySpending == MonthlySpending(list, d, category)
    IN  TrendAmount(AvgSpending(monthlySpending), Trend(monthlySpending))

\* one element of categoryPredictions
Prediction(list, d, category) ==
    LET monthlySpending == MonthlySpending(list, d, category)
        trend           == Trend(monthlySpending)
    IN  [ category        |-> category,
          predictedAmount |->
              Max(0, SeasonalAmount(category, NextMonth(d),
                                    PreSeasonalAmount(list, d, category))),
          confidence      |->
              SeasonalConfidence(category, NextMonth(d),
                                 TrendConfidence(monthlySpending, trend)),
          trend           |-> trend ]

\* predictions: one per category of the expense list, in order of first
\* appearance, those with predictedAmount > 0
Predictions(list, d) ==
    LET categories == UniqueCategories(list, {})
        all == [i \in 1..Len(categories) |-> Prediction(list, d, categories[i])]
    IN  SelectSeq(all, LAMBDA p : p.predictedAmount > 0)

\* the 10 % buffer at medium impact in every case, in place of Recommendation
RecommendationWithBuffer(prediction, b) ==
    [ category |-> prediction.category,
      currentBudget |-> BudgetOf(b, prediction.category),
      recommendedBudget |-> Times(prediction.predictedAmount, 110, 100),
      impact |-> "medium" ]

\* a 50 % buffer for a category without a limit, in place of Recommendation
RecommendationAmple(prediction, b) ==
    LET currentBudget == BudgetOf(b, prediction.category)
        predicted     == prediction.predictedAmount
    IN  IF currentBudget = 0
        THEN [ category |-> prediction.category, currentBudget |-> currentBudget,
               recommendedBudget |-> Times(predicted, 150, 100), impact |-> "high" ]
        ELSE IF Above(predicted, currentBudget, 110, 100)
        THEN [ category |-> prediction.category, currentBudget |-> currentBudget,
               recommendedBudget |-> Times(predicted, 115, 100), impact |-> "high" ]
        ELSE IF Below(predicted, currentBudget, 80, 100)
        THEN [ category |-> prediction.category, currentBudget |-> currentBudget,
               recommendedBudget |-> Times(predicted, 110, 100), impact |-> "medium" ]
        ELSE [ category |-> prediction.category, currentBudget |-> currentBudget,
               recommendedBudget |-> currentBudget, impact |-> "low" ]

\* one element of recommendations (before the sort)
Recommendation(prediction, b) ==
    LET currentBudget == BudgetOf(b, prediction.category)
        predicted     == prediction.predictedAmount
    IN  IF currentBudget = 0
        THEN [ category |-> prediction.category, currentBudget |-> currentBudget,
               recommendedBudget |-> Times(predicted, 120, 100), impact |-> "high" ]
        ELSE IF Above(predicted, currentBudget, 110, 100)
        THEN [ category |-> prediction.category, currentBudget |-> currentBudget,
               recommendedBudget |-> Times(predicted, 115, 100), impact |-> "high" ]
        ELSE IF Below(predicted, currentBudget, 80, 100)
        THEN [ category |-> prediction.category, currentBudget |-> currentBudget,
               recommendedBudget |-> Times(predicted, 110, 100), impact |-> "medium" ]
        ELSE [ category |-> prediction.category, currentBudget |-> currentBudget,
               recommendedBudget |-> currentBudget, impact |-> "low" ]

\* impactOrder = { high: 3, medium: 2, low: 1 }
ImpactOrder(impact) ==
    IF impact = "high" THEN 3 ELSE IF impact = "medium" THEN 2 ELSE 1

\* the list in the order of the predictions, in place of SortByImpact
KeepOrder(recs) == recs

\* recommendations.sort((a, b) => impactOrder[b.impact] - impactOrder[a.impact]):
\* Array.prototype.sort is stable, so the result is the elements of each
\* impact in their original order, the higher impact first; written as
\* an insertion of each element behind those that do not rank below it
RECURSIVE SortByImpact(_)
SortByImpact(recs) ==
    IF recs = <<>> THEN <<>>
    ELSE LET rest  == SortByImpact(Tail(recs))
             x     == Head(recs)
             front == SelectSeq(rest, LAMBDA r :
                          ImpactOrder(r.impact) > ImpactOrder(x.impact))
             back  == SelectSeq(rest, LAMBDA r :
                          ImpactOrder(r.impact) <= ImpactOrder(x.impact))
         IN  front \o <<x>> \o back

\* budgetRecommendations
BudgetRecommendations(list, b, d) ==
    LET predictions == Predictions(list, d)
    IN  SortByImpact([i \in 1..Len(predictions) |->
                         Recommendation(predictions[i], b)])

(***************************************************************************)
(* DashboardStats                                                          *)
(* The clock is read in a time zone in which new Date() and its            *)
(* toISOString() fall on the same day.                                     *)
(***************************************************************************)
LeapYear(year) == (year % 4 = 0 /\ year % 100 # 0) \/ year % 400 = 0

\* the number of days of a month of the Date calendar (month 0 = January)
DaysInMonth(year, month) ==
    IF month = 1 THEN (IF LeapYear(year) THEN 29 ELSE 28)
    ELSE IF month \in {3, 5, 8, 10} THEN 30 ELSE 31

\* new Date(new Date().setMonth(new Date().getMonth() - 1)): setMonth keeps
\* the day of the month, and a day past the end of the target month runs on
\* into the month after it.
SetMonthBack(d) ==
    LET target == MonthDate(d.year, d.month, -1)
        days   == DaysInMonth(target.year, target.month)
        next   == MonthDate(target.year, target.month, 1)
    IN  IF d.day <= days
        THEN [year |-> target.year, month |-> target.month, day |-> d.day]
        ELSE [year |-> next.year, month |-> next.month, day |-> d.day - days]

\* expense.date.startsWith(prefix), prefix the "YYYY-MM" of d.toISOString()
StartsWithMonth(e, d) == e.date.year = d.year /\ e.date.month = d.month

\* currentMonthExpenses
CurrentMonthExpenses(list, d) ==
    SelectSeq(list, LAMBDA e : StartsWithMonth(e, d))

\* currentMonthTotal
CurrentMonthTotal(list, d) == SumSeq(Amounts(CurrentMonthExpenses(list, d)))

\* lastMonthExpenses
LastMonthExpenses(list, d) ==
    SelectSeq(list, LAMBDA e : StartsWithMonth(e, SetMonthBack(d)))

\* lastMonthTotal
LastMonthTotal(list, d) == SumSeq(Amounts(LastMonthExpenses(list, d)))

\* the ratio of the totals in place of their change, in place of
\* SpendingChange
SpendingRatio(currentMonthTotal, lastMonthTotal) ==
    IF lastMonthTotal > 0
    THEN RoundDiv(currentMonthTotal * 10000, lastMonthTotal)
    ELSE 0

\* spendingChange, in hundredths of a percent
SpendingChange(currentMonthTotal, lastMonthTotal) ==
    IF lastMonthTotal > 0
    THEN RoundDiv((currentMonthTotal - lastMonthTotal) * 10000, lastMonthTotal)
    ELSE 0

\* Object.entries(categoryStats): one entry per category of the month's
\* expenses, in the order the reduce first meets them
CategoryStats(monthly) ==
    LET categories == UniqueCategories(monthly, {})
    IN  [i \in 1..Len(categories) |->
            [category |-> categories[i], total |-> SpentIn(monthly, categories[i])]]

\* .sort(([,a], [,b]) => b - a): a stable sort, the larger total first
RECURSIVE SortByTotal(_)
SortByTotal(entries) ==
    IF entries = <<>> THEN <<>>
    ELSE LET rest  == SortByTotal(Tail(entries))
             x     == Head(entries)
             front == SelectSeq(rest, LAMBDA r : r.total > x.total)
             back  == SelectSeq(rest, LAMBDA r : r.total <= x.total)
         IN  front \o <<x>> \o back

\* the sorted entries without the slice, in place of TopCategories
SortedCategories(entries) == SortByTotal(entries)

\* topCategories: .sort(...).slice(0, 3)
TopCategories(entries) ==
    SubSeq(SortByTotal(entries), 1, Min(3, Len(entries)))

(***************************************************************************)
(* Strings.  The model enters a few texts; the string functions of the     *)
(* code are given by their values on these texts.                          *)
(***************************************************************************)
\* s.trim()
Trim(s) ==
    CASE s = "   " -> ""
      [] s = " Gym " -> "Gym"
      [] OTHER -> s

\* s.toLowerCase()
ToLowerCase(s) ==
    CASE s = "Gym" -> "gym"
      [] s = " Gym " -> " gym "
      [] s = "Coffee -5" -> "coffee -5"
      [] s = "Hello" -> "hello"
      [] s = "Food budget tips" -> "food budget tips"
      [] s = "How can I save more?" -> "how can i save more?"
      [] OTHER -> s

\* s.replace(/[^a-z0-9]/g, '_')
Slug(s) ==
    CASE s = " gym " -> "_gym_"
      [] s = "   " -> "___"
      [] OTHER -> s

\* desc.includes(keyword)
Occurs(keyword, desc) ==
    \/ keyword = desc
    \/ keyword = "coffee" /\ desc \in {"coffee -", "coffee -5"}
    \/ keyword = "gym" /\ desc = " gym "
    \/ keyword \in {"food", "budget", "tip"} /\ desc = "food budget tips"
    \/ keyword = "save" /\ desc = "how can i save more?"

\* the text of an input that holds nothing
EmptyText == [numeric |-> FALSE, value |-> 0, length |-> 0]

(***************************************************************************)
(* ExpenseForm                                                             *)
(***************************************************************************)
\* the categories the CustomCategoryManager starts with
DefaultCategories ==
    << [ id |-> "food", value |-> "food", label |-> "Food & Dining",
         emoji |-> "pizza", color |-> "bg-orange-500",
         keywords |-> << "food", "restaurant", "lunch", "dinner", "breakfast",
                         "coffee", "pizza" >> ],
       [ id |-> "transport", value |-> "transport", label |-> "Transport",
         emoji |-> "car", color |-> "bg-blue-500",
         keywords |-> << "uber", "taxi", "bus", "train", "gas", "fuel",
                         "metro" >> ],
       [ id |-> "entertainment", value |-> "entertainment",
         label |-> "Entertainment", emoji |-> "gamepad",
         color |-> "bg-purple-500",
         keywords |-> << "movie", "game", "netflix", "spotify", "concert",
                         "party" >> ],
       [ id |-> "bills", value |-> "bills", label |-> "Bills & Utilities",
         emoji |-> "clipboard", color |-> "bg-red-500",
         keywords |-> << "rent", "electricity", "water", "internet", "phone",
                         "bill" >> ],
       [ id |-> "education", value |-> "education", label |-> "Education",
         emoji |-> "books", color |-> "bg-green-500",
         keywords |-> << "book", "course", "tuition", "school", "university",
                         "study" >> ],
       [ id |-> "others", value |-> "others", label |-> "Others",
         emoji |-> "magnifier", color |-> "bg-gray-500", keywords |-> << >> ] >>

\* smartCategorize: the value of the first category one of whose keywords
\* occurs in the lower-cased description, "others" when there is none
RECURSIVE SmartCategorize(_, _)
SmartCategorize(description, cats) ==
    IF cats = <<>> THEN "others"
    ELSE IF \E k \in 1..Len(Head(cats).keywords) :
                Occurs(Head(cats).keywords[k], ToLowerCase(description))
         THEN Head(cats).value
         ELSE SmartCategorize(description, Tail(cats))

\* new Date().toISOString().split("T")[0]
Today(d) == [year |-> d.year, month |-> d.month, day |-> d.day]

\* the fields as useState initialises them and as the reset leaves them
BlankForm(d) ==
    [description |-> "", amount |-> EmptyText, category |-> "", date |-> Today(d)]

\* e.target.value of the amount input: <input type="number"> reports the
\* empty string for a text that is not a number
NumberInputValue(text) == IF text.numeric THEN text ELSE EmptyText

\* every amount passes, in place of MeetsConstraints
NoConstraints(amount) == TRUE

\* the constraint validation the browser runs before it dispatches the
\* form's submit event: the amount input has min="0" (and is not required)
MeetsConstraints(amount) == amount.numeric => amount.value >= 0

\* isNaN(Number(amount)): Number("") is 0
IsNaNNumber(amount) == ~amount.numeric /\ amount # EmptyText

\* the test on the description alone, in place of InvalidInput
BlankDescription(f) == Trim(f.description) = ""

\* !description.trim() || !amount || isNaN(Number(amount))
InvalidInput(f) ==
    \/ Trim(f.description) = ""
    \/ f.amount = EmptyText
    \/ IsNaNNumber(f.amount)

\* Number(amount), in cents
NumberOf(amount) == IF amount.numeric THEN amount.value ELSE 0

\* text.match(/(\d+(?:\.\d{2})?)\s*(?:dollars?|bucks?|\$)?/) on the
\* lower-cased transcript: whether it matches, the number matched, and
\* text.replace(amountMatch[0], '').trim()
AmountMatch(text) ==
    CASE text = "coffee -5" ->
            [matched |-> TRUE, voiceAmount |-> [numeric |-> TRUE, value |-> 500],
             descriptionPart |-> "coffee -"]
      [] OTHER ->
            [matched |-> FALSE, voiceAmount |-> EmptyText, descriptionPart |-> ""]

(***************************************************************************)
(* CustomCategoryManager                                                   *)
(***************************************************************************)
\* formData and editingCategory as useState initialises them and as
\* resetForm leaves them; keywords holds the pieces between the commas
BlankCategoryForm ==
    [label |-> "", emoji |-> "", color |-> "bg-blue-500", keywords |-> << >>,
     editingCategory |-> "null"]

\* `custom-${Date.now()}`
CustomId(ms) == IF ms = 1 THEN "custom-1" ELSE "custom-2"

\* formData.keywords.split(',').map(k => k.trim().toLowerCase()).filter(k => k)
KeywordsOf(pieces) ==
    SelectSeq([i \in 1..Len(pieces) |-> ToLowerCase(Trim(pieces[i]))],
              LAMBDA k : k # "")

\* no category counts as a default one, in place of IsDefaultCategory
NeverDefault(categoryId) == FALSE

\* defaultCategories.some(cat => cat.id === categoryId)
IsDefaultCategory(categoryId) ==
    \E i \in 1..Len(DefaultCategories) : DefaultCategories[i].id = categoryId

(***************************************************************************)
(* AICoach.  A message is its type and its content (id and timestamp are   *)
(* left out); the content of a reply is the branch of generateAIResponse   *)
(* that wrote it.                                                          *)
(***************************************************************************)
\* the default answer to every message, in place of GenerateAIResponse
DefaultResponse(userMessage) == "default"

\* generateAIResponse: the first pattern the lower-cased message includes
GenerateAIResponse(userMessage) ==
    LET lowerMessage == ToLowerCase(userMessage)
    IN  IF Occurs("budget", lowerMessage) \/ Occurs("spending", lowerMessage)
        THEN "budget"
        ELSE IF Occurs("save", lowerMessage) \/ Occurs("saving", lowerMessage)
        THEN "save"
        ELSE IF Occurs("food", lowerMessage) \/ Occurs("eating", lowerMessage)
        THEN "food"
        ELSE IF Occurs("help", lowerMessage) \/ Occurs("tip", lowerMessage)
        THEN "help"
        ELSE IF Occurs("goal", lowerMessage) \/ Occurs("plan", lowerMessage)
        THEN "goal"
        ELSE "default"

\* the messages of one type, in the order of the list
OfType(list, type) == SelectSeq(list, LAMBDA m : m.type = type)

(***************************************************************************)
(* ExportManager.  The reference date is the local date of the clock; the  *)
(* time of day is in minutes after local midnight, and the time zone is    *)
(* the offset of local time from UTC in minutes.                           *)
(***************************************************************************)
\* the days from 1 January 2024 to the first day of a month
RECURSIVE DaysBefore(_, _)
DaysBefore(year, month) ==
    IF year <= 2024 /\ month = 0 THEN 0
    ELSE LET before == MonthDate(year, month, -1)
         IN  DaysBefore(before.year, before.month)
               + DaysInMonth(before.year, before.month)

\* the day of a date, counted from 1 January 2024
DayNumber(d) == DaysBefore(d.year, d.month) + d.day

\* startDate.setMonth(month): the day of the month is kept, and a day the
\* month does not have is carried into the following month
SetMonth(d, month) ==
    LET days == DaysInMonth(d.year, month)
        next == MonthDate(d.year, month, 1)
    IN  IF d.day <= days
        THEN [year |-> d.year, month |-> month, day |-> d.day]
        ELSE [year |-> next.year, month |-> next.month, day |-> d.day - days]

\* startDate.setDate(1)
SetDate1(d) == [d EXCEPT !.day = 1]

\* startDate of getFilteredExpenses; its time of day is the one of the clock
StartDate(dateRange, d) ==
    IF dateRange = "month"
    THEN SetDate1(SetMonth(d, d.month))
    ELSE SetDate1(SetMonth(d, (d.month \div 3) * 3))

\* new Date(expense.date) >= startDate: the date of an expense is read as
\* midnight UTC, startDate is in local time
NotBefore(e, start, minutes, offset) ==
    DayNumber(e.date) * 1440 + offset >= DayNumber(start) * 1440 + minutes

\* ExportManager.getFilteredExpenses
GetFilteredExpenses(list, dateRange, d, minutes, offset) ==
    IF dateRange = "all" THEN list
    ELSE SelectSeq(list, LAMBDA e :
                            NotBefore(e, StartDate(dateRange, d), minutes, offset))

(***************************************************************************)
(* The state machine                                                       *)
(***************************************************************************)
\* The effects that run after a render in which expenses or budget changed:
\* EnhancedGamification's "Calculate level and points" effect,
\* GameificationPanel's calculateStats effect and Index's effect that saves
\* the expense list.
RunEffects ==
    LET earnedPoints == EarnedPoints(Achievements(expenses', budget', now'))
    IN  /\ savedExpenses' = expenses'
        /\ savedBudget' = budget'
        /\ totalPoints' = earnedPoints
        /\ level' = LevelOf(earnedPoints)
        /\ userStats' = CalculateStats(expenses', budget', now')

\* The effects that run after a render in which the categories of the
\* CustomCategoryManager changed: its save effect writes them to the storage
\* and hands them to Index.updateCategories
CatalogEffects ==
    /\ savedCategories' = catalog'
    /\ indexCategories' = catalog'

\* every key of the storage holds the JSON text of a value
AllJSON == [expenses |-> "json", budget |-> "json", categories |-> "json"]

\* React has committed the last render and has no effect left to run and no
\* state update queued
Settled == [phase |-> "mounted", effects |-> << >>, queue |-> << >>,
            managerRef |-> 0, indexRef |-> 0]

\* the message the chat opens with
Greeting == << [type |-> "ai", content |-> "greeting"] >>

\* no export has been made
NothingExported == [dateRange |-> "none", rows |-> << >>]

\* The forms as they stand once the page has mounted, and the expense list
\* as the save effect has written it
InitForms ==
    /\ savedExpenses = expenses
    /\ form = BlankForm(now)
    /\ formToast = "none"
    /\ catalog = DefaultCategories
    /\ categoryForm = BlankCategoryForm
    /\ categoryToast = "none"
    /\ savedBudget = budget
    /\ savedCategories = catalog
    /\ storageKeys = AllJSON
    /\ indexCategories = catalog
    /\ mount = Settled
    /\ messages = Greeting
    /\ input = ""
    /\ isLoading = FALSE
    /\ timers = << >>
    /\ exported = NothingExported

\* The state once the page has mounted and its effects have run: the clock
\* reads one of `nows`, storage held no expenses, and held one of `stored`
\* as the budget map.
InitWith(nows, stored) ==
    /\ now \in nows
    /\ expenses = <<>>
    /\ budget \in stored
    /\ budgetInputs = EmptyBudget
    \* with nothing stored, budget is still the object the form was given
    /\ inputsSaved \in (IF budget = EmptyBudget THEN BOOLEAN ELSE {FALSE})
    /\ unlockedRewards = <<>>
    /\ totalPoints = EarnedPoints(Achievements(expenses, budget, now))
    /\ level = LevelOf(EarnedPoints(Achievements(expenses, budget, now)))
    /\ userStats = CalculateStats(expenses, budget, now)
    /\ InitForms

\* Index.addExpense, called by ExpenseForm.handleSubmit with a record whose
\* date, category and amount are the form's.
AddExpense(dates, categories, amounts) ==
    /\ Len(expenses) < MaxExpenses
    /\ \E date \in dates, category \in categories, amount \in amounts :
          expenses' = <<[date |-> date, category |-> category,
                         amount |-> amount]>> \o expenses
    /\ UNCHANGED <<now, budget, budgetInputs, inputsSaved, unlockedRewards,
                   formVars, catalogVars, pageVars>>
    /\ RunEffects

\* Index.deleteExpense, for the record at position i (ids taken distinct)
DeleteExpense(i) ==
    /\ i \in 1..Len(expenses)
    /\ expenses' = [k \in 1..(Len(expenses) - 1) |->
                        IF k < i THEN expenses[k] ELSE expenses[k + 1]]
    /\ UNCHANGED <<now, budget, budgetInputs, inputsSaved, unlockedRewards,
                   formVars, catalogVars, pageVars>>
    /\ RunEffects

\* Number(value) || 0 for the text of a budget input
NumberOrZero(text) == IF text.numeric THEN text.value ELSE 0

\* BudgetManager.handleBudgetChange
HandleBudgetChange(category, text) ==
    /\ budgetInputs' = WithKey(budgetInputs, category, NumberOrZero(text))
    /\ inputsSaved' = FALSE
    /\ UNCHANGED <<savedExpenses, savedBudget, formVars, catalogVars, pageVars>>
    /\ UNCHANGED <<now, expenses, budget, level, totalPoints,
                   unlockedRewards, userStats>>

\* BudgetManager.saveBudgets -> Index.updateBudget(budgetInputs).  Setting
\* the state to the object it already holds renders nothing and runs no
\* effect.
SaveBudgets ==
    IF inputsSaved
    THEN UNCHANGED vars
    ELSE /\ budget' = budgetInputs
         /\ inputsSaved' = TRUE
         /\ UNCHANGED <<now, expenses, budgetInputs, unlockedRewards,
                        formVars, catalogVars, pageVars>>
         /\ RunEffects

\* The onClick of a reward's Claim button
ClaimReward(reward) ==
    /\ RewardUnlocked(reward, totalPoints)
    /\ ~Includes(unlockedRewards, reward.id)
    /\ unlockedRewards' = Append(unlockedRewards, reward.id)
    /\ totalPoints' = totalPoints - reward.cost
    /\ UNCHANGED <<savedExpenses, savedBudget, formVars, catalogVars, pageVars>>
    /\ UNCHANGED <<now, expenses, budget, budgetInputs, inputsSaved, level,
                   userStats>>

\* ExpensePrediction.applyRecommendation(rec), rec the i-th recommendation
ApplyRecommendation(i) ==
    LET recs == BudgetRecommendations(expenses, budget, now)
    IN  /\ i \in 1..Len(recs)
        /\ UNCHANGED <<now, expenses, budgetInputs, unlockedRewards,
                       formVars, catalogVars, pageVars>>
        /\ inputsSaved' = FALSE
        /\ budget' = WithKey(budget, recs[i].category, recs[i].recommendedBudget)
        /\ RunEffects

\* every recommendation applied whatever its impact, in place of ApplyHigh
RECURSIVE ApplyEach(_, _)
ApplyEach(recs, newBudget) ==
    IF recs = <<>> THEN newBudget
    ELSE ApplyEach(Tail(recs),
                   WithKey(newBudget, Head(recs).category,
                           Head(recs).recommendedBudget))

\* the forEach of applyAllRecommendations over recs, from newBudget
RECURSIVE ApplyHigh(_, _)
ApplyHigh(recs, newBudget) ==
    IF recs = <<>> THEN newBudget
    ELSE ApplyHigh(Tail(recs),
                   IF Head(recs).impact = "high"
                   THEN WithKey(newBudget, Head(recs).category,
                                Head(recs).recommendedBudget)
                   ELSE newBudget)

\* ExpensePrediction.applyAllRecommendations
ApplyAllRecommendations ==
    /\ UNCHANGED <<now, expenses, budgetInputs, unlockedRewards,
                   formVars, catalogVars, pageVars>>
    /\ inputsSaved' = FALSE
    /\ budget' = ApplyHigh(BudgetRecommendations(expenses, budget, now), budget)
    /\ RunEffects

\* ExpenseForm: typing into the description input
SetDescription(text) ==
    /\ form' = [form EXCEPT !.description = text]
    /\ UNCHANGED <<now, expenses, budget, budgetInputs, inputsSaved, level,
                   totalPoints, unlockedRewards, userStats, savedExpenses, savedBudget,
                   formToast, catalogVars, pageVars>>

\* ExpenseForm: typing into the amount input
SetAmount(text) ==
    /\ form' = [form EXCEPT !.amount = NumberInputValue(text)]
    /\ UNCHANGED <<now, expenses, budget, budgetInputs, inputsSaved, level,
                   totalPoints, unlockedRewards, userStats, savedExpenses, savedBudget,
                   formToast, catalogVars, pageVars>>

\* ExpenseForm.handleVoiceResult
HandleVoiceResult(transcript) ==
    LET amountMatch == AmountMatch(ToLowerCase(transcript))
        spoken == IF amountMatch.descriptionPart # ""
                  THEN amountMatch.descriptionPart ELSE transcript
    IN  /\ form' = IF amountMatch.matched
                   THEN [form EXCEPT !.description = spoken,
                                     !.amount = amountMatch.voiceAmount,
                                     !.category = SmartCategorize(spoken, catalog)]
                   ELSE [form EXCEPT !.description = transcript]
        /\ UNCHANGED <<now, expenses, budget, budgetInputs, inputsSaved, level,
                       totalPoints, unlockedRewards, userStats, savedExpenses, savedBudget,
                       formToast, catalogVars, pageVars>>

\* ExpenseForm.handleSubmit with Index.addExpense and the effects that
\* follow it; ms is the reading of Date.now()
HandleSubmit(ms) ==
    IF InvalidInput(form)
    THEN /\ formToast' = "Invalid Input"
         /\ UNCHANGED <<now, expenses, budget, budgetInputs, inputsSaved, level,
                        totalPoints, unlockedRewards, userStats, savedExpenses, savedBudget,
                        form, catalogVars, pageVars>>
    ELSE /\ Len(expenses) < MaxSubmitted
         /\ expenses' =
                << [ id |-> ms,
                     date |-> form.date,
                     description |-> Trim(form.description),
                     category |-> IF form.category # "" THEN form.category
                                  ELSE SmartCategorize(form.description, catalog),
                     amount |-> NumberOf(form.amount) ] >> \o expenses
         /\ form' = BlankForm(now)
         /\ formToast' = "Expense Added!"
         /\ UNCHANGED <<now, budget, budgetInputs, inputsSaved, unlockedRewards,
                        catalogVars, pageVars>>
         /\ RunEffects

\* pressing "Add Expense": the browser dispatches the submit event only when
\* the inputs of the form meet their constraints
Submit(ms) ==
    /\ MeetsConstraints(form.amount)
    /\ HandleSubmit(ms)

\* Index.deleteExpense: expenses.filter(expense => expense.id !== id)
DeleteExpenseWithId(id) ==
    /\ \E i \in 1..Len(expenses) : expenses[i].id = id
    /\ expenses' = SelectSeq(expenses, LAMBDA e : e.id # id)
    /\ UNCHANGED <<now, budget, budgetInputs, inputsSaved, unlockedRewards,
                   formVars, catalogVars, pageVars>>
    /\ RunEffects

\* CustomCategoryManager.openEditDialog(category) for the category at
\* position i: keywords.join(", ") is entered as its pieces
OpenEditDialog(i) ==
    /\ i \in 1..Len(catalog)
    /\ categoryForm' = [label |-> catalog[i].label,
                        emoji |-> catalog[i].emoji,
                        color |-> catalog[i].color,
                        keywords |-> catalog[i].keywords,
                        editingCategory |-> catalog[i].id]
    /\ UNCHANGED <<now, expenses, budget, budgetInputs, inputsSaved, level,
                   totalPoints, unlockedRewards, userStats, savedExpenses, savedBudget,
                   formVars, catalog, categoryToast, pageVars>>

\* CustomCategoryManager.openEditDialog() of the "Add Category" button
OpenAddDialog ==
    /\ categoryForm' = BlankCategoryForm
    /\ UNCHANGED <<now, expenses, budget, budgetInputs, inputsSaved, level,
                   totalPoints, unlockedRewards, userStats, savedExpenses, savedBudget,
                   formVars, catalog, categoryToast, pageVars>>

\* CustomCategoryManager: typing into the inputs of the dialog
SetFormData(label, emoji, pieces) ==
    /\ categoryForm' = [categoryForm EXCEPT !.label = label, !.emoji = emoji,
                                            !.keywords = pieces]
    /\ UNCHANGED <<now, expenses, budget, budgetInputs, inputsSaved, level,
                   totalPoints, unlockedRewards, userStats, savedExpenses, savedBudget,
                   formVars, catalog, categoryToast, pageVars>>

\* CustomCategoryManager.saveCategory with the effect that hands the
\* categories to Index; ms is the reading of Date.now()
SaveCategory(ms) ==
    /\ IF Trim(categoryForm.label) = "" \/ Trim(categoryForm.emoji) = ""
       THEN /\ categoryToast' = "Invalid Input"
            /\ UNCHANGED <<catalog, categoryForm>>
       ELSE /\ IF categoryForm.editingCategory # "null"
               THEN /\ catalog' =
                         [i \in 1..Len(catalog) |->
                            IF catalog[i].id = categoryForm.editingCategory
                            THEN [catalog[i] EXCEPT
                                    !.label = categoryForm.label,
                                    !.emoji = categoryForm.emoji,
                                    !.color = categoryForm.color,
                                    !.keywords = KeywordsOf(categoryForm.keywords)]
                            ELSE catalog[i]]
                    /\ categoryToast' = "Category Updated!"
               ELSE /\ Len(catalog) < MaxCategories
                    /\ catalog' =
                         Append(catalog,
                                [id |-> CustomId(ms),
                                 value |-> Slug(ToLowerCase(categoryForm.label)),
                                 label |-> categoryForm.label,
                                 emoji |-> categoryForm.emoji,
                                 color |-> categoryForm.color,
                                 keywords |-> KeywordsOf(categoryForm.keywords)])
                    /\ categoryToast' = "Category Created!"
            /\ categoryForm' = BlankCategoryForm
    /\ UNCHANGED <<now, expenses, budget, budgetInputs, inputsSaved, level,
                   totalPoints, unlockedRewards, userStats, savedExpenses, savedBudget,
                   formVars, storageKeys, mount, chatVars, exported>>
    /\ CatalogEffects

\* CustomCategoryManager.deleteCategory with the effect that hands the
\* categories to Index
DeleteCategory(categoryId) ==
    /\ IF IsDefaultCategory(categoryId)
       THEN /\ categoryToast' = "Cannot Delete"
            /\ UNCHANGED catalog
       ELSE /\ catalog' = SelectSeq(catalog, LAMBDA cat : cat.id # categoryId)
            /\ categoryToast' = "Category Deleted"
    /\ UNCHANGED <<now, expenses, budget, budgetInputs, inputsSaved, level,
                   totalPoints, unlockedRewards, userStats, savedExpenses, savedBudget,
                   formVars, categoryForm, storageKeys, mount, chatVars,
                   exported>>
    /\ CatalogEffects

\* AICoach: typing into the input, or pressing a quick question
SetInput(text) ==
    /\ input' = text
    /\ UNCHANGED <<now, expenses, budget, budgetInputs, inputsSaved, level,
                   totalPoints, unlockedRewards, userStats, savedExpenses,
                   savedBudget, formVars, catalogVars, savedCategories,
                   storageKeys, indexCategories, mount, messages, isLoading,
                   timers, exported>>

\* AICoach.handleSendMessage: the timeout it sets is queued behind those
\* already set, all of them having the same delay
HandleSendMessage ==
    IF Trim(input) = ""
    THEN UNCHANGED vars
    ELSE /\ Len(OfType(messages, "user")) < MaxSent
         /\ messages' = Append(messages, [type |-> "user", content |-> input])
         /\ input' = ""
         /\ isLoading' = TRUE
         /\ timers' = Append(timers, [input |-> input])
         /\ UNCHANGED <<now, expenses, budget, budgetInputs, inputsSaved, level,
                        totalPoints, unlockedRewards, userStats, savedExpenses,
                        savedBudget, formVars, catalogVars, savedCategories,
                        storageKeys, indexCategories, mount, exported>>

\* AICoach: the Enter key in the input
PressEnter == HandleSendMessage

\* AICoach: the send button, disabled={isLoading || !input.trim()}
ClickSend ==
    /\ ~(isLoading \/ Trim(input) = "")
    /\ HandleSendMessage

\* AICoach: the callback of the oldest timeout runs
TimerFires ==
    /\ timers # << >>
    /\ messages' = Append(messages,
                          [type |-> "ai",
                           content |-> GenerateAIResponse(Head(timers).input)])
    /\ isLoading' = FALSE
    /\ timers' = Tail(timers)
    /\ UNCHANGED <<now, expenses, budget, budgetInputs, inputsSaved, level,
                   totalPoints, unlockedRewards, userStats, savedExpenses,
                   savedBudget, formVars, catalogVars, savedCategories,
                   storageKeys, indexCategories, mount, input, exported>>

\* ExportManager.handleExport with the date range selected, at a time of day
\* and in a time zone
Export(dateRange, minutes, offset) ==
    /\ exported' = [dateRange |-> dateRange,
                    rows |-> GetFilteredExpenses(expenses, dateRange, now,
                                                 minutes, offset)]
    /\ UNCHANGED <<now, expenses, budget, budgetInputs, inputsSaved, level,
                   totalPoints, unlockedRewards, userStats, savedExpenses,
                   savedBudget, formVars, catalogVars, savedCategories,
                   storageKeys, indexCategories, mount, chatVars>>

(***************************************************************************)
(* What the user enters                                                    *)
(***************************************************************************)
\* the 15th of the month `back` months before d's
MidMonth(d, back) ==
    LET m == d.year * 12 + d.month - back
    IN  [year |-> m \div 12, month |-> m % 12, day |-> 15]

Day(d, n) == [year |-> d.year, month |-> d.month, day |-> n]

Text(v) == [numeric |-> TRUE, value |-> v]

NotANumber == [numeric |-> FALSE, value |-> 0]

August2025 == [year |-> 2025, month |-> 7, day |-> 15]

January2025 == [year |-> 2025, month |-> 0, day |-> 15]

December2025 == [year |-> 2025, month |-> 11, day |-> 15]

\* the budget maps over `keys` whose limits are in `limits`
BudgetsOver(keys, limits) ==
    UNION {[ks -> limits] : ks \in SUBSET keys}

(***************************************************************************)
(* Specification of the gamification panels: expenses of the current and   *)
(* the previous month, budgets typed into the BudgetManager, reward claims *)
(***************************************************************************)
GameDates == {Day(now, 10), MidMonth(now, 1)}

InitGame == InitWith({August2025}, {EmptyBudget})

NextGame ==
    \/ AddExpense(GameDates, {"food", "education"}, {5000})
    \/ \E i \in 1..MaxExpenses : DeleteExpense(i)
    \/ \E t \in {Text(10000), NotANumber} : HandleBudgetChange("food", t)
    \/ SaveBudgets
    \/ \E r \in Rewards : ClaimReward(r)

SpecGame == InitGame /\ [][NextGame]_vars

(***************************************************************************)
(* Specification of the budget recommendations: a stored budget map,       *)
(* expenses of the current and the previous month added one after another, *)
(* recommendations applied in between                                      *)
(***************************************************************************)
InitRecommend ==
    InitWith({December2025},
             {b \in BudgetsOver({"food", "entertainment"}, {10000}) :
                 "entertainment" \in DOMAIN b})

NextRecommend ==
    \/ AddExpense({MidMonth(now, 0), MidMonth(now, 1)},
                  {"food", "education"}, {15000})
    \/ \E i \in 1..MaxExpenses : ApplyRecommendation(i)
    \/ ApplyAllRecommendations

SpecRecommend == InitRecommend /\ [][NextRecommend]_vars

(***************************************************************************)
(* Specification of the predictions: expenses of the last three months     *)
(***************************************************************************)
InitPredict == InitWith({January2025, August2025}, {EmptyBudget}) /\ inputsSaved

NextPredict ==
    \/ AddExpense({MidMonth(now, 0), MidMonth(now, 1), MidMonth(now, 2)},
                  {"food", "education"}, {10000, 15000})
    \/ \E i \in 1..MaxExpenses : DeleteExpense(i)

SpecPredict == InitPredict /\ [][NextPredict]_vars

(***************************************************************************)
(* Specification of the monthly figures (DashboardStats and the health     *)
(* score): the page opens on a mid-month day or on the last day of a long  *)
(* month, with or without expenses in storage                              *)
(***************************************************************************)
March31st2025 == [year |-> 2025, month |-> 2, day |-> 31]

\* JSON.parse(savedExpenses): four expenses of the current month, one to a
\* category
StoredExpenses(d) ==
    << [date |-> Day(d, 12), category |-> "others", amount |-> 1000],
       [date |-> Day(d, 10), category |-> "transport", amount |-> 3000],
       [date |-> Day(d, 10), category |-> "bills", amount |-> 2000],
       [date |-> Day(d, 5), category |-> "entertainment", amount |-> 3000] >>

InitDashboard ==
    /\ now \in {January2025, March31st2025}
    /\ expenses \in {<<>>, StoredExpenses(now)}
    /\ budget \in {EmptyBudget, [food |-> 4000]}
    /\ budgetInputs = EmptyBudget
    /\ inputsSaved = (budget = EmptyBudget)
    /\ unlockedRewards = <<>>
    /\ totalPoints = EarnedPoints(Achievements(expenses, budget, now))
    /\ level = LevelOf(EarnedPoints(Achievements(expenses, budget, now)))
    /\ userStats = CalculateStats(expenses, budget, now)
    /\ InitForms

NextDashboard ==
    \/ AddExpense({MidMonth(now, 0), MidMonth(now, 1)}, {"food", "transport"},
                  {5000})
    \/ \E i \in 1..Len(StoredExpenses(now)) : DeleteExpense(i)

SpecDashboard == InitDashboard /\ [][NextDashboard]_vars

(***************************************************************************)
(* Specification of the expense form: descriptions and amounts typed or    *)
(* spoken, the form submitted at one of two readings of the clock, records *)
(* deleted by id                                                           *)
(***************************************************************************)
ClockReadings == {1, 2}

InitForm == InitWith({August2025}, {EmptyBudget}) /\ inputsSaved

NextForm ==
    \/ \E text \in {"lunch", "   "} : SetDescription(text)
    \/ \E text \in {Text(500), Text(-500), NotANumber} : SetAmount(text)
    \/ \E transcript \in {"Coffee -5", "Hello"} : HandleVoiceResult(transcript)
    \/ \E ms \in ClockReadings : Submit(ms)
    \/ \E id \in ClockReadings : DeleteExpenseWithId(id)

SpecForm == InitForm /\ [][NextForm]_vars

(***************************************************************************)
(* Specification of the category catalog: the dialog opened for a default  *)
(* or a custom category or for a new one, filled in, and saved; categories *)
(* deleted by id, a default one included                                   *)
(***************************************************************************)
InitCatalog == InitWith({August2025}, {EmptyBudget}) /\ inputsSaved

NextCatalog ==
    \/ \E i \in {1, Len(DefaultCategories) + 1} : OpenEditDialog(i)
    \/ OpenAddDialog
    \/ \E label \in {"Gym", "   "}, emoji \in {"G", ""},
          pieces \in {<< >>, << " Gym ", "" >>} : SetFormData(label, emoji, pieces)
    \/ \E ms \in ClockReadings : SaveCategory(ms)
    \/ \E categoryId \in {"food", "custom-1"} : DeleteCategory(categoryId)

SpecCatalog == InitCatalog /\ [][NextCatalog]_vars

(***************************************************************************)
(* Specification of the AICoach chat: texts typed, sent with the Enter key *)
(* or the button, timeouts running; every timeout set runs in the end      *)
(***************************************************************************)
InitCoach == InitWith({August2025}, {EmptyBudget}) /\ inputsSaved

NextCoach ==
    \/ \E text \in {"Food budget tips", "How can I save more?", "Hello", "   "} :
          SetInput(text)
    \/ PressEnter
    \/ ClickSend
    \/ TimerFires

SpecCoach == InitCoach /\ [][NextCoach]_vars /\ WF_vars(TimerFires)

(***************************************************************************)
(* Specification of the export: the page opens on a mid-month day, on the  *)
(* first day of a month or on the last day of a long month, with or        *)
(* without expenses in storage; exports at midnight and in the morning, in *)
(* UTC, east and west of it                                                *)
(***************************************************************************)
August1st2025 == [year |-> 2025, month |-> 7, day |-> 1]

May31st2025 == [year |-> 2025, month |-> 4, day |-> 31]

\* local times of day, in minutes: 00:00 and 10:00
TimesOfDay == {0, 600}

\* offsets of local time from UTC, in minutes: UTC, UTC+05:30, UTC-05:00
TimeZones == {0, 330, -300}

\* JSON.parse(savedExpenses): expenses of the first day of the current
\* month, the first day of the quarter, the months before and after
ExportedExpenses(d) ==
    << [date |-> Day(MidMonth(d, -1), 15), category |-> "food", amount |-> 1500],
       [date |-> Day(d, 1), category |-> "food", amount |-> 1000],
       [date |-> [year |-> d.year, month |-> (d.month \div 3) * 3, day |-> 1],
        category |-> "bills", amount |-> 2000],
       [date |-> Day(MidMonth(d, (d.month % 3) + 1), 28), category |-> "others",
        amount |-> 500] >>

InitExport ==
    /\ now \in {August2025, August1st2025, May31st2025}
    /\ expenses \in {<<>>, ExportedExpenses(now)}
    /\ budget = EmptyBudget
    /\ budgetInputs = EmptyBudget
    /\ inputsSaved = TRUE
    /\ unlockedRewards = <<>>
    /\ totalPoints = EarnedPoints(Achievements(expenses, budget, now))
    /\ level = LevelOf(EarnedPoints(Achievements(expenses, budget, now)))
    /\ userStats = CalculateStats(expenses, budget, now)
    /\ InitForms

NextExport ==
    \/ \E dateRange \in {"all", "month", "quarter"}, minutes \in TimesOfDay,
          offset \in TimeZones : Export(dateRange, minutes, offset)
    \/ AddExpense({Day(now, 1), Day(now, 2)}, {"food"}, {5000})
    \/ \E i \in 1..Len(ExportedExpenses(now)) : DeleteExpense(i)

SpecExport == InitExport /\ [][NextExport]_vars

(***************************************************************************)
(* Specification of the budget form: a stored budget map, limits typed     *)
(* into the BudgetManager and saved, recommendations applied               *)
(***************************************************************************)
InitBudget ==
    InitWith({August2025}, BudgetsOver({"food", "entertainment"}, {10000}))

NextBudget ==
    \/ AddExpense({MidMonth(now, 0)}, {"education"}, {15000})
    \/ \E t \in {Text(20000), NotANumber} : HandleBudgetChange("food", t)
    \/ SaveBudgets
    \/ \E i \in 1..MaxExpenses : ApplyRecommendation(i)
    \/ ApplyAllRecommendations

SpecBudget == InitBudget /\ [][NextBudget]_vars

(***************************************************************************)
(* Properties                                                              *)
(***************************************************************************)
\* the sum of the points of the achievements that are unlocked now
UnlockedPoints ==
    LET a == Achievements(expenses, budget, now)
    IN  SumSeq([i \in 1..Len(a) |-> IF a[i].unlocked THEN a[i].points ELSE 0])

InRange(score, lo, hi) == score.nan \/ (lo <= score.v /\ score.v <= hi)

\* C1: each of the four health sub-scores lies in [0, 100] and so does the
\* rounded composite.  (A score that is NaN is not counted against the range
\* here.)  The code puts no ceiling on the budget-adherence score.
C1_ScoresInRange ==
    LET metrics == HealthMetrics(expenses, budget, now)
    IN  /\ \A i \in 1..4 : InRange(metrics[i], 0, 10000)
        /\ InRange(OverallScore(metrics), 0, 100)

\* C2 as stated: in every state totalPoints is the sum of the points of the
\* achievements unlocked now, whatever rewards were claimed.
C2_PointsAreFunctionOfState == totalPoints = UnlockedPoints

\* C2 amended: as long as no reward has been claimed, totalPoints is the sum
\* of the points of the achievements unlocked now.
C2_PointsUntilClaim == unlockedRewards = <<>> => totalPoints = UnlockedPoints

\* C2 witness: achievements are unlocked, their points awarded, nothing
\* claimed yet.
C2_Witness ==
    /\ unlockedRewards = <<>>
    /\ expenses # <<>>
    /\ budget # EmptyBudget
    /\ totalPoints >= 500

\* C3 as stated: in both panels the level is floor(totalPoints / perLevel) + 1
\* of the totalPoints shown in the same state.
C3_LevelOfDisplayedPoints ==
    /\ level = (totalPoints \div 200) + 1
    /\ userStats.level = (userStats.totalPoints \div 1000) + 1

\* C3 amended: GameificationPanel's level is floor(totalPoints / 1000) + 1;
\* EnhancedGamification's level is floor(E / 200) + 1 for E the sum of the
\* points of the unlocked achievements, which is the totalPoints shown
\* until a reward is claimed.
C3_LevelOfEarnedPoints ==
    /\ level = (UnlockedPoints \div 200) + 1
    /\ unlockedRewards = <<>> => level = (totalPoints \div 200) + 1
    /\ userStats.level = (userStats.totalPoints \div 1000) + 1

\* C3 witness: both panels are beyond level 1 and a reward has been claimed.
C3_Witness ==
    /\ unlockedRewards # <<>>
    /\ level >= 2
    /\ userStats.level >= 2

\* C4: every achievement of both catalogs is unlocked exactly when its
\* progress has reached maxProgress.
C4_UnlockedIffProgress ==
    LET enhanced == Achievements(expenses, budget, now)
        panel    == userStats.achievements
    IN  /\ \A i \in 1..Len(enhanced) :
              enhanced[i].unlocked <=> enhanced[i].progress >= enhanced[i].maxProgress
        /\ \A i \in 1..Len(panel) :
              panel[i].unlocked <=> panel[i].progress >= panel[i].maxProgress

\* the rule of the budget recommendation for a predicted amount p and a
\* current limit c
ExpectedRecommendation(p, c) ==
    IF c = 0 THEN [recommendedBudget |-> RoundDiv(p * 12, 10), impact |-> "high"]
    ELSE IF 10 * p > 11 * c
         THEN [recommendedBudget |-> RoundDiv(p * 115, 100), impact |-> "high"]
    ELSE IF 10 * p < 8 * c
         THEN [recommendedBudget |-> RoundDiv(p * 11, 10), impact |-> "medium"]
    ELSE [recommendedBudget |-> c, impact |-> "low"]

\* the recommendation listed for a category
RecommendationsFor(category) ==
    LET recs == BudgetRecommendations(expenses, budget, now)
    IN  {recs[i] : i \in {k \in 1..Len(recs) : recs[k].category = category}}

\* C5: every predicted category (predicted amount p > 0, current limit c, 0
\* when unset) has the recommendation of the rule: c = 0 -> p x 1.2, high;
\* p > c x 1.1 -> p x 1.15, high; p < c x 0.8 -> p x 1.1, medium; otherwise
\* c, low.  With c = 0 and p = 50 it is 60, high.
C5_RecommendationRule ==
    LET predictions == Predictions(expenses, now)
    IN  \A i \in 1..Len(predictions) :
          LET p == predictions[i].predictedAmount
              c == BudgetOf(budget, predictions[i].category)
              e == ExpectedRecommendation(p, c)
          IN  /\ p > 0
              /\ \A r \in RecommendationsFor(predictions[i].category) :
                    /\ r.currentBudget = c
                    /\ r.recommendedBudget = e.recommendedBudget
                    /\ r.impact = e.impact
                    /\ (c = 0 /\ p = 5000) =>
                          (r.recommendedBudget = 6000 /\ r.impact = "high")
              /\ Cardinality(RecommendationsFor(predictions[i].category)) = 1

\* C5 witness: a category predicted at 50 with no limit, and another whose
\* prediction lies more than 10 % above its limit.
C5_Witness ==
    LET predictions == Predictions(expenses, now)
    IN  /\ \E i \in 1..Len(predictions) :
              /\ predictions[i].predictedAmount = 5000
              /\ BudgetOf(budget, predictions[i].category) = 0
        /\ \E i \in 1..Len(predictions) :
              /\ BudgetOf(budget, predictions[i].category) > 0
              /\ 10 * predictions[i].predictedAmount
                    > 11 * BudgetOf(budget, predictions[i].category)

\* the categories with a high-impact recommendation
HighImpact ==
    LET recs == BudgetRecommendations(expenses, budget, now)
    IN  {recs[i].category : i \in {k \in 1..Len(recs) : recs[k].impact = "high"}}

\* C6: applyAllRecommendations sets exactly the categories with a
\* high-impact recommendation to their recommended value; every other key of
\* the budget map keeps its value and no key is removed.
C6_ApplyAllFrame ==
    [][ApplyAllRecommendations =>
          /\ DOMAIN budget' = (DOMAIN budget) \cup HighImpact
          /\ \A c \in HighImpact :
                \A r \in RecommendationsFor(c) : budget'[c] = r.recommendedBudget
          /\ \A c \in (DOMAIN budget) \ HighImpact : budget'[c] = budget[c]
          /\ expenses' = expenses]_vars

\* C6 witness: two categories stand at the value recommended for a category
\* without a limit, while the limit of a category with no expense stands as
\* stored.
C6_Witness ==
    /\ "entertainment" \in DOMAIN budget
    /\ budget["entertainment"] = 10000
    /\ \A c \in {"food", "education"} :
          /\ c \in DOMAIN budget
          /\ \E i \in 1..Len(Predictions(expenses, now)) :
                /\ Predictions(expenses, now)[i].category = c
                /\ budget[c] =
                     RoundDiv(Predictions(expenses, now)[i].predictedAmount * 12, 10)

\* C7: applyRecommendation(rec) sets budget[rec.category] to
\* rec.recommendedBudget and leaves every other key and the expense list as
\* they were.
C7_ApplyOneFrame ==
    [][\A i \in 1..MaxExpenses :
          ApplyRecommendation(i) =>
            LET rec == BudgetRecommendations(expenses, budget, now)[i]
            IN  /\ DOMAIN budget' = (DOMAIN budget) \cup {rec.category}
                /\ budget'[rec.category] = rec.recommendedBudget
                /\ \A c \in (DOMAIN budget) \ {rec.category} :
                      budget'[c] = budget[c]
                /\ expenses' = expenses]_vars

\* C7 witness: one category stands at a recommended value that is not a
\* stored limit, next to a limit that stands as stored and a predicted
\* category that still has none.
C7_Witness ==
    /\ DOMAIN budget = {"food", "entertainment"}
    /\ budget["entertainment"] = 10000
    /\ budget["food"] # 10000
    /\ \E i \in 1..Len(Predictions(expenses, now)) :
          Predictions(expenses, now)[i].category = "education"
    /\ \E i \in 1..Len(Predictions(expenses, now)) :
          /\ Predictions(expenses, now)[i].category = "food"
          /\ budget["food"] =
                RoundDiv(Predictions(expenses, now)[i].predictedAmount * 11, 10)

Rank(impact) ==
    CASE impact = "high" -> 3 [] impact = "medium" -> 2 [] impact = "low" -> 1

\* the recommendations before they are sorted, one per prediction
Unsorted ==
    LET predictions == Predictions(expenses, now)
    IN  [i \in 1..Len(predictions) |-> Recommendation(predictions[i], budget)]

\* C8: the list of recommendations is ordered by impact, high before medium
\* before low, and is a permutation of the recommendations of the
\* predictions.
C8_SortedByImpact ==
    LET recs == BudgetRecommendations(expenses, budget, now)
    IN  /\ \A i, j \in 1..Len(recs) :
              i < j => Rank(recs[i].impact) >= Rank(recs[j].impact)
        /\ Len(recs) = Len(Unsorted)
        /\ \E perm \in [1..Len(recs) -> 1..Len(recs)] :
              /\ \A i, j \in 1..Len(recs) : perm[i] = perm[j] => i = j
              /\ \A i \in 1..Len(recs) : recs[i] = Unsorted[perm[i]]

\* C8 witness: the prediction listed first has the lower impact, so that the
\* sort has to move it.
C8_Witness ==
    /\ Len(Unsorted) = 2
    /\ Rank(Unsorted[1].impact) < Rank(Unsorted[2].impact)

\* the category's total in the month k months before the current one
SeriesOf(category) ==
    [k \in 1..3 |->
        LET inMonth == {i \in 1..Len(expenses) :
                          /\ expenses[i].category = category
                          /\ 12 * expenses[i].date.year + expenses[i].date.month
                               = 12 * now.year + now.month - (k - 1)}
            amount  == [i \in inMonth |-> expenses[i].amount]
        IN  SumFun(amount, inMonth)]

ExpectedTrend(series) ==
    IF 10 * series[1] > 11 * series[3] THEN "increasing"
    ELSE IF 10 * series[1] < 9 * series[3] THEN "decreasing"
    ELSE "stable"

Mean(series) == RoundDiv(series[1] + series[2] + series[3], 3)

\* C9: with the series (current month, previous month, the month before),
\* the trend is increasing if series[0] > series[2] x 1.1, decreasing if
\* series[0] < series[2] x 0.9, else stable; the amount predicted before the
\* seasonal adjustment is the mean x 1.15 / 0.85 / 1.0 and is not negative;
\* [100, 100, 100] gives stable and 100.
C9_TrendAndAmount ==
    \A c \in CategorySet(expenses) :
        LET series == SeriesOf(c)
            trend  == Prediction(expenses, now, c).trend
            amount == PreSeasonalAmount(expenses, now, c)
        IN  /\ trend = ExpectedTrend(series)
            /\ trend = "increasing" => amount = RoundDiv(Mean(series) * 115, 100)
            /\ trend = "decreasing" => amount = RoundDiv(Mean(series) * 85, 100)
            /\ trend = "stable" => amount = Mean(series)
            /\ amount >= 0
            /\ series = <<10000, 10000, 10000>> =>
                  (trend = "stable" /\ amount = 10000)

\* C9 witness: one category has the series [100, 100, 100].
C9_Witness ==
    \E c \in CategorySet(expenses) : SeriesOf(c) = <<10000, 10000, 10000>>

Seasonal(category) == category \in {"education", "entertainment"}

\* C10 as stated: a non-seasonal category with the series [150, 100, 100] is
\* predicted increasing at 143.33.
C10_Predicts14333 ==
    \A c \in CategorySet(expenses) :
        (~Seasonal(c) /\ SeriesOf(c) = <<15000, 10000, 10000>>) =>
            /\ Prediction(expenses, now, c).trend = "increasing"
            /\ Prediction(expenses, now, c).predictedAmount = 14333

\* C10 amended: a non-seasonal category with the series [150, 100, 100] is
\* predicted increasing at avg(150, 100, 100) x 1.15 = 134.17.
C10_Predicts13417 ==
    \A c \in CategorySet(expenses) :
        (~Seasonal(c) /\ SeriesOf(c) = <<15000, 10000, 10000>>) =>
            /\ Prediction(expenses, now, c).trend = "increasing"
            /\ Prediction(expenses, now, c).predictedAmount = 13417
            /\ \E i \in 1..Len(Predictions(expenses, now)) :
                  Predictions(expenses, now)[i] = Prediction(expenses, now, c)

\* C10 witness: a non-seasonal category has the series [150, 100, 100].
C10_Witness ==
    \E c \in CategorySet(expenses) :
        ~Seasonal(c) /\ SeriesOf(c) = <<15000, 10000, 10000>>

\* every one of the three trailing months has spending in the category
HasData(series) == \A k \in 1..3 : series[k] > 0

\* C11: the confidence before the seasonal adjustment is 70 for a stable
\* trend; for an increasing trend 85 if all three trailing months have
\* spending data for the category and 70 otherwise; for a decreasing trend
\* 80 if all three have data and 65 otherwise.
C11_ConfidenceByData ==
    \A c \in CategorySet(expenses) :
        LET monthlySpending == MonthlySpending(expenses, now, c)
            trend      == Trend(monthlySpending)
            confidence == TrendConfidence(monthlySpending, trend)
        IN  /\ trend = "stable" => confidence = 70
            /\ trend = "increasing" =>
                  confidence = (IF HasData(SeriesOf(c)) THEN 85 ELSE 70)
            /\ trend = "decreasing" =>
                  confidence = (IF HasData(SeriesOf(c)) THEN 80 ELSE 65)

\* the sum of the amounts of the expenses dated `back` calendar months
\* before the month of now
CalendarMonthTotal(back) ==
    LET inMonth == {i \in 1..Len(expenses) :
                      12 * expenses[i].date.year + expenses[i].date.month
                        = 12 * now.year + now.month - back}
        amount  == [i \in inMonth |-> expenses[i].amount]
    IN  SumFun(amount, inMonth)

\* C12: whatever the day of now, the 29th to 31st and January included,
\* DashboardStats' current-month total is the sum over exactly the expenses
\* of now's calendar month and its previous-month total the sum over exactly
\* those of the calendar month before it.
C12_MonthTotals ==
    /\ CurrentMonthTotal(expenses, now) = CalendarMonthTotal(0)
    /\ LastMonthTotal(expenses, now) = CalendarMonthTotal(1)

\* C13: the percent change is (current - previous) / previous x 100 when the
\* previous-month total of the component is above 0 (to the rounding of a
\* hundredth of a percent), and 0 when that total is 0.
C13_SpendingChange ==
    LET current  == CurrentMonthTotal(expenses, now)
        previous == LastMonthTotal(expenses, now)
        change   == SpendingChange(current, previous)
        exact    == (current - previous) * 10000
    IN  /\ previous > 0 =>
              /\ 2 * (change * previous - exact) <= previous
              /\ 2 * (exact - change * previous) <= previous
        /\ previous = 0 => change = 0

\* C13 witness: the previous month has spending and the current month less.
C13_Witness ==
    /\ LastMonthTotal(expenses, now) > 0
    /\ SpendingChange(CurrentMonthTotal(expenses, now),
                      LastMonthTotal(expenses, now)) < 0

\* C14: the per-category totals of the current month add up to the
\* current-month total, and the top-category list is those totals in
\* descending order, cut to at most three entries.
C14_CategoryTotals ==
    LET stats == CategoryStats(CurrentMonthExpenses(expenses, now))
        top   == TopCategories(stats)
        all   == {stats[i] : i \in 1..Len(stats)}
        kept  == {top[i] : i \in 1..Len(top)}
    IN  /\ SumSeq([i \in 1..Len(stats) |-> stats[i].total])
             = CurrentMonthTotal(expenses, now)
        /\ Cardinality(all) = Len(stats)
        /\ Len(top) = Min(3, Len(stats))
        /\ Cardinality(kept) = Len(top)
        /\ kept \subseteq all
        /\ \A i, j \in 1..Len(top) : i < j => top[i].total >= top[j].total
        /\ \A out \in all \ kept : \A in \in kept : in.total >= out.total

\* C14 witness: four categories have spending this month and the first is
\* not the largest.
C14_Witness ==
    LET stats == CategoryStats(CurrentMonthExpenses(expenses, now))
    IN  /\ Len(stats) = 4
        /\ stats[1].total < stats[2].total

\* C15: with no spending day in the current month, or a mean daily spend of
\* 0, the spending-consistency score is the number 100 and the composite
\* score is a number.
C15_ConsistencyDefined ==
    LET daily   == DailySpending(MonthlyExpenses(expenses, now))
        metrics == HealthMetrics(expenses, budget, now)
    IN  (DOMAIN daily = {} \/ AvgDailySpending(daily) = 0) =>
            /\ metrics[2] = Num(10000)
            /\ ~OverallScore(metrics).nan

\* C16: the emergency-readiness score is 100 when totalBudget >= 0.5 x S and
\* totalBudget / (0.5 x S) x 100 otherwise, S being this month's spend, or
\* 100 when that spend is 0; the budget-adherence score is 50 whenever
\* totalBudget is 0.
C16_EmergencyAndNeutral ==
    LET spend       == CalendarMonthTotal(0)
        S           == IF spend = 0 THEN 10000 ELSE spend
        totalBudget == TotalBudget(budget)
        metrics     == HealthMetrics(expenses, budget, now)
    IN  /\ metrics[4] = Num(IF 2 * totalBudget >= S THEN 10000
                            ELSE RoundDiv(2 * totalBudget * 10000, S))
        /\ totalBudget = 0 => metrics[1] = Num(5000)

\* C16 witness: a budget is set and is less than half of this month's spend,
\* part of it entered since the page opened.
C16_Witness ==
    /\ TotalBudget(budget) > 0
    /\ \E i \in 1..Len(expenses) : expenses[i].category = "food"
    /\ 2 * TotalBudget(budget) < CalendarMonthTotal(0)

\* what the claims call a blank description or a blank or non-numeric amount
BlankOrNonNumeric(f) ==
    \/ f.description \in {"", "   "}
    \/ f.amount = EmptyText
    \/ ~f.amount.numeric

\* C17: a submission whose description is empty or only white space, or
\* whose amount is blank or not a number, leaves the expense list, the
\* persisted expense list and the form fields as they were; a submission
\* changes the expense list only when the description is not blank and the
\* amount is a number, and then by prepending exactly one record.
C17_RejectsInvalid ==
    [][\A ms \in ClockReadings :
          Submit(ms) =>
            /\ BlankOrNonNumeric(form) =>
                  /\ expenses' = expenses
                  /\ savedExpenses' = savedExpenses
                  /\ form' = form
            /\ expenses' # expenses =>
                  /\ ~BlankOrNonNumeric(form)
                  /\ Len(expenses') = Len(expenses) + 1
                  /\ Tail(expenses') = expenses
                  /\ savedExpenses' = expenses']_vars

\* a rejected submission of a blank description with a numeric amount, the
\* list holding a record accepted before
C17_Witness ==
    /\ formToast = "Invalid Input"
    /\ form.description = "   "
    /\ form.amount.numeric
    /\ Len(expenses) = 1

\* C18: after any sequence of submissions, typed or spoken, and deletions,
\* every record of the expense list has an amount of at least 0.
C18_AmountsNonNegative ==
    \A i \in 1..Len(expenses) : expenses[i].amount >= 0

\* a spoken "Coffee -5" was accepted as the amount 5, and the form now holds
\* a description with the typed amount -5
C18_Witness ==
    /\ \E i \in 1..Len(expenses) :
          expenses[i].description = "coffee -" /\ expenses[i].amount = 500
    /\ form.description = "lunch"
    /\ form.amount.numeric
    /\ form.amount.value < 0

\* C19: after any sequence of adds and deletes, two adds at the same clock
\* millisecond included, the ids of the records of the expense list are
\* pairwise distinct.
C19_DistinctIds ==
    \A i, j \in 1..Len(expenses) : i # j => expenses[i].id # expenses[j].id

\* the six categories the claims call default
SixDefaults == {"food", "transport", "entertainment", "bills", "education", "others"}

\* C20: after any sequence of category additions, edits and deletions each of
\* the six default categories is in the catalog with its original id and
\* value; deleteCategory on a default id leaves the catalog unchanged, and
\* saving a new category only appends one entry to the catalog.
C20_DefaultsKept ==
    /\ [](\A d \in SixDefaults :
            \E i \in 1..Len(catalog) : catalog[i].id = d /\ catalog[i].value = d)
    /\ [][/\ \A d \in SixDefaults : DeleteCategory(d) => catalog' = catalog
          /\ \A ms \in ClockReadings :
                SaveCategory(ms) /\ categoryForm.editingCategory = "null" =>
                    \/ catalog' = catalog
                    \/ /\ Len(catalog') = Len(catalog) + 1
                       /\ SubSeq(catalog', 1, Len(catalog)) = catalog]_vars

\* the default category food was edited, a custom category was appended,
\* and a deletion of a default category was refused
C20_Witness ==
    /\ categoryToast = "Cannot Delete"
    /\ Len(catalog) = Len(DefaultCategories) + 1
    /\ catalog[1].id = "food"
    /\ catalog[1].label = "Gym"
    /\ catalog[Len(catalog)].id = "custom-1"

\* the answer the claims expect to a message
Answer(text) ==
    CASE text = "Food budget tips" -> "budget"
      [] text = "How can I save more?" -> "save"
      [] OTHER -> "default"

\* the position in the message list of the n-th message of a type
RECURSIVE PositionOf(_, _, _)
PositionOf(list, type, n) ==
    IF list[Len(list)].type = type /\ Len(OfType(list, type)) = n
    THEN Len(list)
    ELSE PositionOf(SubSeq(list, 1, Len(list) - 1), type, n)

\* the replies of the message list: the AI messages after the greeting
Replies == Tail(OfType(messages, "ai"))

\* C26: every non-blank message sent is appended as a user message and, once
\* its timer has fired, has exactly one AI reply, which stands later in the
\* message list; sending a blank input changes nothing.  This holds for any
\* interleaving of sends and timer firings.
C26_EveryMessageAnswered ==
    /\ [](/\ Len(OfType(messages, "user")) = Len(Replies) + Len(timers)
          /\ \A n \in 1..Len(Replies) :
                /\ Replies[n].content = Answer(OfType(messages, "user")[n].content)
                /\ PositionOf(messages, "ai", n + 1) > PositionOf(messages, "user", n))
    /\ [][/\ Trim(input) = "" /\ ~TimerFires =>
                UNCHANGED <<messages, timers, isLoading>>
          /\ PressEnter /\ Trim(input) # "" =>
                messages' = Append(messages, [type |-> "user", content |-> input])
          /\ Len(messages') >= Len(messages)
          /\ Len(messages') > Len(messages) =>
                /\ SubSeq(messages', 1, Len(messages)) = messages
                /\ Len(messages') = Len(messages) + 1]_vars
    /\ \A n \in 1..MaxSent :
          (Len(OfType(messages, "user")) >= n) ~> (Len(Replies) >= n)

\* two messages were sent before the first timer fired, and both have their
\* reply
C26_Witness ==
    /\ Len(messages) = 5
    /\ messages[2].type = "user"
    /\ messages[3].type = "user"
    /\ messages[4].type = "ai"
    /\ messages[5].type = "ai"
    /\ messages[4].content # messages[5].content
    /\ timers = << >>

\* C30: isLoading is true in every state in which a reply is pending, and at
\* most one reply timer is outstanding at any time.
C30_LoadingWhilePending ==
    /\ timers # << >> => isLoading
    /\ Len(timers) <= 1

\* the first day of the calendar quarter of a date
QuarterStart(d) == [year |-> d.year, month |-> (d.month \div 3) * 3, day |-> 1]

\* the expenses the claims expect in an export
ExpectedExport(dateRange) ==
    CASE dateRange = "all" -> expenses
      [] dateRange = "month" ->
            SelectSeq(expenses, LAMBDA e : e.date.year = now.year
                                           /\ e.date.month = now.month)
      [] OTHER ->
            SelectSeq(expenses, LAMBDA e :
                                   DayNumber(e.date) >= DayNumber(QuarterStart(now)))

\* C25: at every reference time an export holds every expense for 'all',
\* the expenses dated in the calendar month of the reference time for
\* 'month', the first of the month included, and the expenses dated on or
\* after the first day of its calendar quarter for 'quarter'; the export
\* leaves the expense list and the budget map unchanged.
C25_ExportRanges ==
    [][\A dateRange \in {"all", "month", "quarter"},
          minutes \in TimesOfDay, offset \in TimeZones :
            Export(dateRange, minutes, offset) =>
               /\ exported'.rows = ExpectedExport(dateRange)
               /\ UNCHANGED <<expenses, budget>>]_vars

\* the categories the BudgetManager has an input for
BudgetCategories ==
    {"food", "transport", "entertainment", "bills", "education", "others"}

\* C27: saveBudgets preserves every budget entry the user did not edit in
\* the form: for each category whose input the user has not changed,
\* budget[category] after the save equals its value just before it.
C27_SavePreservesUnedited ==
    [][SaveBudgets =>
          \A category \in BudgetCategories :
              category \notin DOMAIN budgetInputs =>
                  BudgetOf(budget', category) = BudgetOf(budget, category)]_vars

\* the recommendations of the next state
RecommendationsAfter == BudgetRecommendations(expenses', budget', now')

\* C29: applying a recommendation is a fixpoint: with the expense list
\* unchanged, after applyRecommendation(rec) the recomputed recommendation
\* for rec.category has impact low and recommends the new current budget,
\* and after applyAllRecommendations no high-impact recommendation remains,
\* so applying again does not change the budget map.
C29_ApplyIsFixpoint ==
    [][/\ \A i \in 1..MaxExpenses :
             expenses' = expenses /\ ApplyRecommendation(i) =>
               LET rec   == BudgetRecommendations(expenses, budget, now)[i]
                   after == RecommendationsAfter
               IN  \A k \in 1..Len(after) :
                      after[k].category = rec.category =>
                         /\ after[k].impact = "low"
                         /\ after[k].recommendedBudget = budget'[rec.category]
                         /\ after[k].currentBudget = rec.recommendedBudget
                         /\ WithKey(budget', rec.category,
                                    after[k].recommendedBudget) = budget'
       /\ expenses' = expenses /\ ApplyAllRecommendations =>
             LET after == RecommendationsAfter
             IN  /\ \A k \in 1..Len(after) : after[k].impact # "high"
                 /\ ApplyHigh(after, budget') = budget']_vars

\* a category without a stored limit stands at the value recommended for
\* it, and its recommendation is now of low impact; another category still
\* has a recommendation to apply
C29_Witness ==
    LET recs == BudgetRecommendations(expenses, budget, now)
        predictions == Predictions(expenses, now)
    IN  /\ \E k \in 1..Len(recs) :
              /\ recs[k].impact = "low"
              /\ recs[k].category \in DOMAIN budget
              /\ budget[recs[k].category] # 10000
              /\ \E i \in 1..Len(predictions) :
                    /\ predictions[i].category = recs[k].category
                    /\ budget[recs[k].category]
                          = Times(predictions[i].predictedAmount, 120, 100)
        /\ \E k \in 1..Len(recs) : recs[k].impact # "low"

(***************************************************************************)
(* The page from its first render on, one React step at a time: a render   *)
(* applies the queued state updates and schedules the effects whose        *)
(* dependencies changed, the effects run one after the other in the order  *)
(* of the component tree (CustomCategoryManager before Index), and the     *)
(* updates they queue are applied by the next render.  The identity of a   *)
(* category array is a number: 0 is the constant defaultCategories, 1 the  *)
(* [] Index starts with, every parsed or rebuilt array gets a number of    *)
(* its own.                                                                *)
(***************************************************************************)
MaxQueued == 4

\* Index's save effects ahead of its load effect, in place of FirstCommit
FirstCommitSavesFirst ==
    << "manager.load", "manager.save", "gamification",
       "index.saveExpenses", "index.saveBudget", "index.load" >>

\* the effects of the first commit, children before parents, each
\* component's in the order of its useEffect calls
FirstCommit == << "manager.load", "manager.save", "gamification",
                  "index.load", "index.saveExpenses", "index.saveBudget" >>

\* the identities of the arrays React still refers to
LiveRefs ==
    {mount.managerRef, mount.indexRef}
       \cup {mount.queue[i].ref : i \in 1..Len(mount.queue)}

\* the identity of an array made now: the first number no live array has
FreshRef ==
    CHOOSE r \in 2..(Len(mount.queue) + 4) :
        /\ r \notin LiveRefs
        /\ \A s \in 2..(r - 1) : s \in LiveRefs

\* setState(value) and setState(prev => ...) as React queues them
Update(target, op, value, ref) ==
    [target |-> target, op |-> op, value |-> value, ref |-> ref]

\* the queued updates of one piece of state, applied in the order they were
\* queued
RECURSIVE ApplyUpdates(_, _, _)
ApplyUpdates(queue, target, state) ==
    IF queue = << >> THEN state
    ELSE LET u == Head(queue)
         IN  ApplyUpdates(Tail(queue), target,
                CASE u.target # target -> state
                  [] u.target = target /\ u.op = "set" ->
                        [value |-> u.value, ref |-> u.ref]
                  [] u.target = target /\ u.op = "filter" ->
                        [value |-> SelectSeq(state.value,
                                             LAMBDA cat : cat.id # u.value),
                         ref |-> u.ref])

\* some update of `target` is queued
Updated(queue, target) ==
    \E i \in 1..Len(queue) : queue[i].target = target

\* GameificationPanel's useState<UserStats>
InitialStats ==
    [totalPoints |-> 0, level |-> 1, currentStreak |-> 0, totalSaved |-> 0,
     achievements |-> << >>]

\* createRoot(...).render: the first render of Index and of its children,
\* every piece of state at its useState value
Start ==
    /\ mount.phase = "unmounted"
    /\ expenses' = << >>
    /\ budget' = EmptyBudget
    /\ budgetInputs' = EmptyBudget
    /\ inputsSaved' = TRUE
    /\ level' = 1
    /\ totalPoints' = 0
    /\ unlockedRewards' = << >>
    /\ form' = BlankForm(now)
    /\ formToast' = "none"
    /\ catalog' = DefaultCategories
    /\ categoryForm' = BlankCategoryForm
    /\ categoryToast' = "none"
    /\ indexCategories' = << >>
    /\ messages' = Greeting
    /\ input' = ""
    /\ isLoading' = FALSE
    /\ timers' = << >>
    /\ exported' = NothingExported
    /\ userStats' = InitialStats
    /\ mount' = [phase |-> "mounted", effects |-> FirstCommit, queue |-> << >>,
                 managerRef |-> 0, indexRef |-> 1]
    /\ UNCHANGED <<now, savedExpenses, savedBudget, savedCategories,
                   storageKeys>>

\* an effect threw: without an error boundary React unmounts the tree
Failed == [phase |-> "failed", effects |-> << >>, queue |-> << >>,
           managerRef |-> 0, indexRef |-> 1]

\* CustomCategoryManager's first effect
ManagerLoad ==
    /\ UNCHANGED <<savedExpenses, savedBudget, savedCategories, storageKeys,
                   level, totalPoints, userStats>>
    /\ mount' =
         CASE storageKeys.categories = "missing" ->
                [mount EXCEPT !.effects = Tail(@),
                   !.queue = Append(@, Update("index", "set",
                                               DefaultCategories, 0))]
           [] storageKeys.categories = "corrupt" -> Failed
           [] storageKeys.categories = "json" ->
                [mount EXCEPT !.effects = Tail(@),
                   !.queue = @ \o
                      << Update("manager", "set", savedCategories, FreshRef),
                         Update("index", "set", savedCategories, FreshRef) >>]

\* CustomCategoryManager's second effect
ManagerSave ==
    /\ savedCategories' = catalog
    /\ storageKeys' = [storageKeys EXCEPT !.categories = "json"]
    /\ mount' = [mount EXCEPT !.effects = Tail(@),
                   !.queue = Append(@, Update("index", "set", catalog,
                                               mount.managerRef))]
    /\ UNCHANGED <<savedExpenses, savedBudget, level, totalPoints, userStats>>

\* the effects of EnhancedGamification and of GameificationPanel
Gamification ==
    LET earnedPoints == EarnedPoints(Achievements(expenses, budget, now))
    IN  /\ totalPoints' = earnedPoints
        /\ level' = LevelOf(earnedPoints)
        /\ userStats' = CalculateStats(expenses, budget, now)
        /\ mount' = [mount EXCEPT !.effects = Tail(@)]
        /\ UNCHANGED <<savedExpenses, savedBudget, savedCategories,
                       storageKeys>>

\* Index's first effect
IndexLoad ==
    LET loadedExpenses ==
            IF storageKeys.expenses = "json"
            THEN << Update("expenses", "set", savedExpenses, 0) >> ELSE << >>
        loadedBudget ==
            IF storageKeys.budget = "json"
            THEN << Update("budget", "set", savedBudget, 0) >> ELSE << >>
    IN  /\ UNCHANGED <<savedExpenses, savedBudget, savedCategories,
                       storageKeys, level, totalPoints, userStats>>
        /\ mount' =
             IF "corrupt" \in {storageKeys.expenses, storageKeys.budget}
             THEN Failed
             ELSE [mount EXCEPT !.effects = Tail(@),
                     !.queue = @ \o loadedExpenses \o loadedBudget]

\* Index's second effect
IndexSaveExpenses ==
    /\ savedExpenses' = expenses
    /\ storageKeys' = [storageKeys EXCEPT !.expenses = "json"]
    /\ mount' = [mount EXCEPT !.effects = Tail(@)]
    /\ UNCHANGED <<savedBudget, savedCategories, level, totalPoints,
                   userStats>>

\* Index's third effect
IndexSaveBudget ==
    /\ savedBudget' = budget
    /\ storageKeys' = [storageKeys EXCEPT !.budget = "json"]
    /\ mount' = [mount EXCEPT !.effects = Tail(@)]
    /\ UNCHANGED <<savedExpenses, savedCategories, level, totalPoints,
                   userStats>>

\* React runs the next effect of the commit
RunEffect ==
    /\ mount.phase = "mounted"
    /\ mount.effects # << >>
    /\ CASE Head(mount.effects) = "manager.load" -> ManagerLoad
         [] Head(mount.effects) = "manager.save" -> ManagerSave
         [] Head(mount.effects) = "gamification" -> Gamification
         [] Head(mount.effects) = "index.load" -> IndexLoad
         [] Head(mount.effects) = "index.saveExpenses" -> IndexSaveExpenses
         [] Head(mount.effects) = "index.saveBudget" -> IndexSaveBudget
    /\ UNCHANGED <<now, expenses, budget, budgetInputs, inputsSaved,
                   unlockedRewards, formVars, catalogVars, indexCategories,
                   chatVars, exported>>

\* React renders with the queued updates applied.  Index renders again when
\* one of its pieces of state is a new object, and hands a new
\* updateCategories to the CustomCategoryManager, both of whose effects
\* depend on it; the manager alone renders again when its categories are a
\* new array.
Render ==
    /\ mount.phase = "mounted"
    /\ mount.effects = << >>
    /\ mount.queue # << >>
    /\ LET queue   == mount.queue
           manager == ApplyUpdates(queue, "manager",
                         [value |-> catalog, ref |-> mount.managerRef])
           index   == ApplyUpdates(queue, "index",
                         [value |-> indexCategories, ref |-> mount.indexRef])
           expensesSet  == Updated(queue, "expenses")
           budgetSet    == Updated(queue, "budget")
           indexRenders == expensesSet \/ budgetSet
                              \/ index.ref # mount.indexRef
       IN  /\ catalog' = manager.value
           /\ indexCategories' = index.value
           /\ expenses' = ApplyUpdates(queue, "expenses",
                             [value |-> expenses, ref |-> 0]).value
           /\ budget' = ApplyUpdates(queue, "budget",
                           [value |-> budget, ref |-> 0]).value
           /\ inputsSaved' = (inputsSaved /\ ~budgetSet)
           /\ mount' =
                [mount EXCEPT
                   !.queue = << >>,
                   !.managerRef = manager.ref,
                   !.indexRef = index.ref,
                   !.effects =
                      (IF indexRenders THEN << "manager.load", "manager.save" >>
                       ELSE IF manager.ref # mount.managerRef
                       THEN << "manager.save" >> ELSE << >>)
                      \o (IF expensesSet \/ budgetSet
                          THEN << "gamification" >> ELSE << >>)
                      \o (IF expensesSet
                          THEN << "index.saveExpenses" >> ELSE << >>)
                      \o (IF budgetSet
                          THEN << "index.saveBudget" >> ELSE << >>)]
    /\ UNCHANGED <<now, budgetInputs, level, totalPoints, unlockedRewards,
                   userStats, savedExpenses, savedBudget, savedCategories,
                   storageKeys, formVars, categoryForm, categoryToast,
                   chatVars, exported>>

\* a handler queues an update between two React steps
Queue(update) ==
    /\ mount.phase = "mounted"
    /\ mount.effects = << >>
    /\ Len(mount.queue) < MaxQueued
    /\ mount' = [mount EXCEPT !.queue = Append(@, update)]
    /\ UNCHANGED <<now, expenses, budget, budgetInputs, inputsSaved, level,
                   totalPoints, unlockedRewards, userStats, savedExpenses,
                   savedBudget, savedCategories, storageKeys, formVars,
                   catalogVars, indexCategories, chatVars, exported>>

\* Index.updateBudget
UpdateBudget(newBudget) ==
    /\ newBudget # budget
    /\ Queue(Update("budget", "set", newBudget, 0))

\* deleteCategory of a category that is not a default one
RemoveCategory(categoryId) ==
    /\ ~IsDefaultCategory(categoryId)
    /\ Queue(Update("manager", "filter", categoryId, FreshRef))

\* the tab is closed or reloaded between two React steps: the storage stays
Close ==
    /\ mount.phase \in {"mounted", "failed"}
    /\ mount.effects = << >>
    /\ mount' = [phase |-> "unmounted", effects |-> << >>, queue |-> << >>,
                 managerRef |-> 0, indexRef |-> 1]
    /\ UNCHANGED <<now, expenses, budget, budgetInputs, inputsSaved, level,
                   totalPoints, unlockedRewards, userStats, savedExpenses,
                   savedBudget, savedCategories, storageKeys, formVars,
                   catalogVars, indexCategories, chatVars, exported>>

Lunch ==
    [date |-> Day(August2025, 10), category |-> "food", amount |-> 5000]

StudyCategory ==
    [id |-> "custom-1", value |-> "study", label |-> "Study",
     emoji |-> "book", color |-> "bg-blue-500", keywords |-> << >>]

FoodLimit(limit) == [c \in {"food"} |-> limit]

\* the page is closed; each key of the storage is absent, holds a text that
\* is no JSON, or holds what an earlier session wrote
InitMount ==
    /\ now = August2025
    /\ expenses = << >>
    /\ budget = EmptyBudget
    /\ budgetInputs = EmptyBudget
    /\ inputsSaved = TRUE
    /\ level = 1
    /\ totalPoints = 0
    /\ unlockedRewards = << >>
    /\ userStats = InitialStats
    /\ form = BlankForm(now)
    /\ formToast = "none"
    /\ catalog = DefaultCategories
    /\ categoryForm = BlankCategoryForm
    /\ categoryToast = "none"
    /\ indexCategories = << >>
    /\ messages = Greeting
    /\ input = ""
    /\ isLoading = FALSE
    /\ timers = << >>
    /\ exported = NothingExported
    /\ storageKeys \in [{"expenses", "budget", "categories"}
                           -> {"missing", "corrupt", "json"}]
    /\ savedExpenses =
          (IF storageKeys.expenses = "json" THEN << Lunch >> ELSE << >>)
    /\ savedBudget =
          (IF storageKeys.budget = "json" THEN FoodLimit(10000)
                                          ELSE EmptyBudget)
    /\ savedCategories \in
          (IF storageKeys.categories = "json"
           THEN {DefaultCategories, Append(DefaultCategories, StudyCategory)}
           ELSE {<< >>})
    /\ mount = [phase |-> "unmounted", effects |-> << >>, queue |-> << >>,
                managerRef |-> 0, indexRef |-> 1]

NextMount ==
    \/ Start
    \/ RunEffect
    \/ Render
    \/ UpdateBudget(FoodLimit(20000))
    \/ RemoveCategory("custom-1")
    \/ Close

\* React runs the effects of a commit and renders again when updates are
\* queued
SpecMount ==
    InitMount /\ [][NextMount]_vars /\ WF_vars(RunEffect) /\ WF_vars(Render)

\* the effect React runs next
NextEffect ==
    IF mount.phase = "mounted" /\ mount.effects # << >>
    THEN Head(mount.effects) ELSE "none"

\* start-up and every later step have left the page standing
Standing == mount.phase # "failed"

\* C21: on start-up a missing or corrupted stored value is replaced by its
\* fallback: the load effects queue no expense list and no budget map for a
\* key that holds no JSON, the category catalog falls back to the default
\* catalog, and the page does not end in an error state.
C21_StartupFallsBack ==
    [][/\ NextEffect = "index.load" =>
             /\ Standing'
             /\ storageKeys.expenses # "json" =>
                   ~Updated(mount'.queue, "expenses")
             /\ storageKeys.budget # "json" =>
                   ~Updated(mount'.queue, "budget")
       /\ NextEffect = "manager.load" =>
             /\ Standing'
             /\ storageKeys.categories # "json" =>
                   /\ ~Updated(mount'.queue, "manager")
                   /\ ApplyUpdates(mount'.queue, "index",
                         [value |-> indexCategories, ref |-> 1]).value
                        = DefaultCategories]_vars

\* C28: while the page starts with an expense list and a budget map in the
\* storage, no step of the mount sequence replaces a stored entry by the
\* empty list or the empty map.
C28_StoredDataSurvivesStartup ==
    [][/\ savedExpenses # << >> => savedExpenses' # << >>
       /\ savedBudget # EmptyBudget => savedBudget' # EmptyBudget]_vars

\* no effect is left to run and no state update is queued
Quiescent ==
    /\ mount.phase = "mounted"
    /\ mount.effects = << >>
    /\ mount.queue = << >>

\* C24: after the mount and after each user action the page reaches
\* quiescence: only finitely many renders, updates and storage writes follow.
C24_ReachesQuiescence ==
    (mount.phase = "mounted") ~> (mount.phase # "mounted" \/ Quiescent)

\* the effects of the last render have run, every key of the storage holds
\* JSON, and the three stored entries are the expense list, the budget map
\* and the categories that Index and the CustomCategoryManager hold
Consistent ==
    /\ mount.phase = "mounted"
    /\ mount.effects = << >>
    /\ storageKeys = AllJSON
    /\ savedExpenses = expenses
    /\ savedBudget = budget
    /\ savedCategories = catalog
    /\ savedCategories = indexCategories

\* C23: after every state transition, once its effects have run, the stored
\* expense list, budget map and category catalog equal the ones in memory.
C23_PersistedEqualsMemory ==
    (mount.phase = "mounted") ~> (mount.phase # "mounted" \/ Consistent)

\* a budget map other than b is queued, or the page is gone
Diverted(b) ==
    \/ mount.phase # "mounted"
    \/ \E i \in 1..Len(mount.queue) :
          mount.queue[i].target = "budget" /\ mount.queue[i].value # b

\* updateBudget or the load effect has queued the budget map b, and no other
Handed(b) ==
    /\ mount.phase = "mounted"
    /\ Updated(mount.queue, "budget")
    /\ ~(\E i \in 1..Len(mount.queue) :
            mount.queue[i].target = "budget" /\ mount.queue[i].value # b)

\* the storage holds the budget map b
Stored(b) == storageKeys.budget = "json" /\ savedBudget = b

\* C22: a budget map b handed to updateBudget reaches the storage unless
\* the page is closed or another map is set first, and a fresh start that
\* finds in the storage the map that updateBudget was given ends, unless the
\* page is closed, with that map as the budget in memory and in the storage.
C22_BudgetRoundTrip ==
    /\ \A b \in {FoodLimit(10000), FoodLimit(20000)} :
          Handed(b) ~> (Stored(b) \/ Diverted(b))
    /\ (mount.phase = "mounted" /\ mount.effects = FirstCommit
           /\ Stored(FoodLimit(20000)))
          ~> (\/ mount.phase # "mounted"
              \/ budget = FoodLimit(20000) /\ Stored(FoodLimit(20000)))

\* a fresh start has read the map that updateBudget stored in an earlier
\* session: the load effect has queued it and the save effects of the first
\* commit have not run yet
C22_Witness ==
    /\ mount.phase = "mounted"
    /\ mount.indexRef = 1
    /\ mount.effects = << "index.saveExpenses", "index.saveBudget" >>
    /\ savedBudget = FoodLimit(20000)
    /\ \E i \in 1..Len(mount.queue) :
          mount.queue[i] = Update("budget", "set", FoodLimit(20000), 0)

=============================================================================
